---- MODULE Spec2Model ----
(***************************************************************************)
(* Byte-Bistro reliable transports: the Go-Back-N engine (src/bb_gbn.c)    *)
(* and the Selective-Repeat engine (src/bb_sr.c) between two endpoints     *)
(* joined by the lossy, duplicating, reordering channel (src/bb_channel.c).*)
(*                                                                         *)
(* Sequence numbers are unsigned and SeqBits wide (32 in the program);     *)
(* all arithmetic on them is modulo SeqMod and every comparison is the     *)
(* signed interpretation of the difference, as in seq_cmp.                 *)
(*                                                                         *)
(* The engines never inspect payload bytes, so the k-th byte an endpoint   *)
(* hands to send is modelled by the label 10*endpoint + k: any alteration, *)
(* reordering, duplication or omission of bytes is then visible.           *)
(***************************************************************************)
EXTENDS Integers, Sequences, FiniteSets, TLC

\* ---------------------------------------------------------------- bounds
SeqBits == 10
MaxLen == 2
MaxSends == 2
MaxLost == 2

\* ------------------------------------------------------ program constants
HdrSize == 18
GbnBufCap == 1500
GbnOutCap == 65536
DefaultWnd == 32
DefaultMss == 512
RecvBufCap == 2048
BB_FLAG_ACK == 1
BB_FLAG_DATA == 2

SeqMod == 2 ^ SeqBits
EP == {1, 2}
Peer(e) == 3 - e

\* Configurations handed to the constructor (0 selects the default).
CfgWnd == {0, 1, 2}
CfgMss == {1, 2}
CfgInitSeq == {1, SeqMod - 1}
\* Capacities an application passes to recv.
Caps == {1, RecvBufCap}

Min(a, b) == IF a < b THEN a ELSE b

VARIABLES
  engine,              \* the constructor that made the session's endpoints ("gbn" or "sr")
  wnd, mss, init_seq,  \* cfg.wnd, cfg.mss, cfg.init_seq after the constructor's defaults
  lossy,               \* whether the channel's loss decision may drop a datagram at send
  trace,               \* whether the history variable call is kept
  snd_una, snd_nxt,    \* per endpoint
  rcv_nxt,
  timer_running,       \* GBN: the single base timer
  outbuf,              \* GBN: snapshot of the last message (outlen = Len)
  net,                 \* net[e]: datagrams in flight towards endpoint e
  lost,                \* number of datagrams dropped by the channel's loss decision
  msgs,                \* history: messages passed to send, per endpoint
  rets,                \* history: payloads returned by recv (> 0), per endpoint
  origTx,              \* history: <<seq, payload>> of first transmissions
  retx,                \* history: <<seq, payload>> retransmitted by the latest recv
  capok,               \* history: every recv so far was given cap >= mss
  call,                \* history: the latest call or loop pass, what it received, returned and offered
  pc,                  \* SR: where each endpoint stands ("idle", "send", "drain")
  sdata, soff,         \* SR: the message being sent and the offset reached
  sret,                \* SR: result of the latest completed send (-2: none yet)
  tx,                  \* SR: tx[e][i] = payload held by sender slot i (domain = slots in use)
  txtimers,            \* SR: slots whose timer is armed
  rx,                  \* SR: rx[e][i] = payload held by receiver slot i (domain = slots present)
  chan,                \* the channel objects under study (struct bb_channel_s) and their history
  tmr                  \* the deadline timer under study (bb_timer_t), its clock and its history

gbnVars == <<timer_running, outbuf>>
srVars == <<pc, sdata, soff, sret, tx, txtimers, rx>>
cfgVars == <<engine, wnd, mss, init_seq, lossy, trace>>
ioVars == <<chan, tmr>>
vars == <<engine, wnd, mss, init_seq, lossy, trace, snd_una, snd_nxt, rcv_nxt, timer_running, outbuf, net,
          lost, msgs, rets, origTx, retx, capok, call, pc, sdata, soff, sret, tx, txtimers, rx,
          chan, tmr>>

\* ------------------------------------------------------------- sequences
seq_cmp(a, b) ==
  LET d == (a - b) % SeqMod
  IN IF d >= SeqMod \div 2 THEN d - SeqMod ELSE d

bb_next_seq(x) == (x + 1) % SeqMod

\* ------------------------------------------------------------ wire codec
\* A datagram that bb_wire_parse rejects.
Corrupt == [flags |-> 0, seq |-> 0, ack |-> 0, pl |-> <<>>]
Timeout == [flags |-> 0, seq |-> 1, ack |-> 0, pl |-> <<>>]

\* Mutant of bb_wire_pack_fits: the header is not counted.
PackFitsPayload(cap, n) == cap >= n

\* bb_wire_pack succeeds iff the buffer holds header and payload.
bb_wire_pack_fits(cap, n) == cap >= HdrSize + n

\* The record of one call (or one pass of a loop inside send): the endpoint,
\* the outcome h of its bb_channel_recv, its return value and the datagrams
\* it handed to bb_channel_send, in order.
\* fail names what made a send give up: "pack", "channel" or "none".
\* timer names what the ACK handling of a GBN recv did to the base timer:
\* "armed" (start_timer: the deadline becomes now + rto), "stopped"
\* (timer_running = false) or "kept" (neither).
CallT(op, e, h, ret, out, fail, tm) ==
  IF trace
  THEN [op |-> op, e |-> e, h |-> h, ret |-> ret, out |-> out, fail |-> fail, timer |-> tm]
  ELSE call

CallF(op, e, h, ret, out, fail) == CallT(op, e, h, ret, out, fail, "kept")

Call(op, e, h, ret, out) == CallF(op, e, h, ret, out, "none")

DataFrame(seq, ack, pl) == [flags |-> BB_FLAG_DATA, seq |-> seq, ack |-> ack, pl |-> pl]
\* Mutant of AckFrame: the ACK carries the sequence before ackn.
AckFrameBehind(ackn) ==
  [flags |-> BB_FLAG_ACK, seq |-> 0, ack |-> (ackn + SeqMod - 1) % SeqMod, pl |-> <<>>]

AckFrame(ackn) == [flags |-> BB_FLAG_ACK, seq |-> 0, ack |-> ackn, pl |-> <<>>]

\* ---------------------------------------------------------------- channel
\* The channel may drop, delay, duplicate and reorder datagrams and never
\* alters one (src/bb_channel.c).  net[e] holds the datagrams on their way
\* to e.  With lossy set, bb_channel_send drops a datagram by its loss
\* decision or queues it, and a received datagram leaves the channel unless
\* it was duplicated.  With lossy unset, net[e] keeps every datagram ever
\* offered and each may arrive never, once or repeatedly, in any order:
\* this covers every loss, duplication, reordering and delay at once.
MaxOffer == MaxLen * MaxSends + 1

\* The positions of one call's datagrams that survive the loss decision.
KeptSets == IF lossy THEN SUBSET (1..MaxOffer) ELSE {1..MaxOffer}

\* Whether a received datagram stays in the channel (a duplicate follows).
KeepSet == IF lossy THEN BOOLEAN ELSE {TRUE}

\* The loss decisions open to one call's datagrams, as sets of surviving
\* positions; lost counts the datagrams dropped so far, at most MaxLost in
\* a run.
Survivors(frames, kepts) ==
  {k \in {j \cap DOMAIN frames : j \in kepts} :
     lost + Len(frames) - Cardinality(k) <= MaxLost}

bb_channel_send(n, dest, frames, kept) ==
  [n EXCEPT ![dest] = @ \cup {frames[i] : i \in kept}]

\* The outcomes of bb_channel_recv at e: a datagram, or a timeout.
bb_channel_recv(e) == net[e] \cup {Corrupt, Timeout}

\* The channel after e's bb_channel_recv returned h.
AfterRecv(e, h, keep) ==
  IF keep THEN net ELSE [net EXCEPT ![e] = @ \ {h}]

\* --------------------------------------------------------------- history
Flatten(ss) ==
  LET F[i \in 0..Len(ss)] == IF i = 0 THEN <<>> ELSE F[i - 1] \o ss[i]
  IN F[Len(ss)]

Range(s) == {s[i] : i \in DOMAIN s}

IsPrefix(s, t) == Len(s) <= Len(t) /\ SubSeq(t, 1, Len(s)) = s

\* The message lengths an application may hand to send: endpoint 1 sends
\* messages of any length up to MaxLen, endpoint 2 answers with at most one
\* single-byte message (its DATA frame carries a piggybacked ack).
SendLens(e) == IF e = 1 THEN 0..MaxLen ELSE IF msgs[2] = <<>> THEN {1} ELSE {}

\* The bytes of the next message of length len handed to send at endpoint e.
NewData(e, len) ==
  LET base == Len(Flatten(msgs[e])) IN [i \in 1..len |-> 10 * e + base + i]

\* ------------------------------------------------------------------- GBN
bb_proto_gbn_create_wnd(w) == IF w = 0 THEN DefaultWnd ELSE w
bb_proto_gbn_create_mss(m) == IF m = 0 THEN DefaultMss ELSE m

\* timer_expired: false while the timer is not running, otherwise decided
\* by the clock.
timer_expired(running) == IF running THEN BOOLEAN ELSE {FALSE}

\* Mutant of GbnWindowClosed: the window test is off by one.
GbnWindowClosedOffByOne(una, nxt) == ((nxt - una) % SeqMod) > wnd

\* The window test of bb_proto_send: unsigned snd_nxt - snd_una >= cfg.wnd.
GbnWindowClosed(una, nxt) == ((nxt - una) % SeqMod) >= wnd

\* The send loop of bb_proto_send: fragments data from offset off while the
\* window has room.  bad is the position, among the datagrams of this call,
\* of the one for which bb_channel_send returns a negative value (0: none).
\* Such a datagram was queued by the channel before its sendto failed, so
\* it may still leave with a later bb_channel_send.
RECURSIVE GbnSendLoopCh(_, _, _, _, _, _, _)
GbnSendLoopCh(data, off, una, nxt, ack, frames, bad) ==
  LET done == [nxt |-> nxt, frames |-> frames, ret |-> 0, fail |-> "none", queued |-> <<>>]
  IN IF off >= Len(data) THEN done
     ELSE IF GbnWindowClosed(una, nxt) THEN done
     ELSE LET chunk == Min(Len(data) - off, mss)
              f == DataFrame(nxt, ack, SubSeq(data, off + 1, off + chunk))
          IN IF ~bb_wire_pack_fits(GbnBufCap, chunk)
             THEN [done EXCEPT !.ret = -1, !.fail = "pack"]
             ELSE IF Len(frames) + 1 = bad
             THEN [done EXCEPT !.ret = -1, !.fail = "channel", !.queued = <<f>>]
             ELSE GbnSendLoopCh(data, off + chunk, una, bb_next_seq(nxt), ack,
                                Append(frames, f), bad)

\* The send loop over a channel whose bb_channel_send never fails.
GbnSendLoop(data, off, una, nxt, ack, frames) ==
  GbnSendLoopCh(data, off, una, nxt, ack, frames, 0)

\* The loop of retransmit_window_from_snapshot, from sequence q on.
RECURSIVE GbnRetxLoop(_, _, _, _, _, _)
GbnRetxLoop(buf, una, nxt, ack, q, frames) ==
  IF seq_cmp(nxt, q) <= 0 THEN frames
  ELSE LET off2 == ((q - una) % SeqMod) * mss
       IN IF off2 >= Len(buf) THEN frames
          ELSE LET c2 == Min(Len(buf) - off2, mss)
               IN GbnRetxLoop(buf, una, nxt, ack, bb_next_seq(q),
                    IF bb_wire_pack_fits(GbnBufCap, c2)
                    THEN Append(frames, DataFrame(q, ack, SubSeq(buf, off2 + 1, off2 + c2)))
                    ELSE frames)

\* Mutant of retransmit_window_from_snapshot: the timer is re-armed and
\* nothing is resent.
RetransmitNothing(buf, una, nxt, ack) == [frames |-> <<>>, timer |-> TRUE]

\* retransmit_window_from_snapshot: the frames offered and the timer flag.
retransmit_window_from_snapshot(buf, una, nxt, ack) ==
  IF seq_cmp(nxt, una) <= 0 \/ Len(buf) = 0
  THEN [frames |-> <<>>, timer |-> FALSE]
  ELSE [frames |-> GbnRetxLoop(buf, una, nxt, ack, una, <<>>), timer |-> TRUE]

\* Mutant of GbnAckAccepted: the comparison ignores the wrap.
GbnAckAcceptedNoWrap(a, una, nxt) == a >= una /\ a <= nxt

\* Mutant of GbnAckAccepted: an ack equal to snd_nxt is refused.
GbnAckAcceptedStrict(a, una, nxt) == seq_cmp(a, una) >= 0 /\ seq_cmp(a, nxt) < 0

\* The cumulative-ACK test of bb_proto_recv.
GbnAckAccepted(a, una, nxt) == seq_cmp(a, una) >= 0 /\ seq_cmp(a, nxt) <= 0

Pairs(frames) == {<<frames[i].seq, frames[i].pl>> : i \in DOMAIN frames}

\* The engine state after bb_proto_gbn_create / bb_proto_sr_create (calloc,
\* then the three counters set to cfg.init_seq) with an empty channel.
\* No channel object and no timer is under study.
NoChan == <<>>
NoTimer ==
  [armed |-> FALSE, deadline_ns |-> 0, now |-> 0, ticks |-> 0, op |-> "none", at |-> 0, ms |-> 0]

EngineState(n) ==
  /\ snd_una = [e \in EP |-> init_seq]
  /\ snd_nxt = [e \in EP |-> init_seq]
  /\ rcv_nxt = [e \in EP |-> init_seq]
  /\ timer_running = [e \in EP |-> FALSE]
  /\ outbuf = [e \in EP |-> <<>>]
  /\ net = n
  /\ lost = 0
  /\ msgs = [e \in EP |-> <<>>]
  /\ rets = [e \in EP |-> <<>>]
  /\ origTx = [e \in EP |-> {}]
  /\ retx = [e \in EP |-> {}]
  /\ capok = TRUE
  /\ call = [op |-> "none", e |-> 0, h |-> Timeout, ret |-> 0, out |-> <<>>, fail |-> "none",
             timer |-> "kept"]
  /\ pc = [e \in EP |-> "idle"]
  /\ sdata = [e \in EP |-> <<>>]
  /\ soff = [e \in EP |-> 0]
  /\ sret = [e \in EP |-> -2]
  /\ tx = [e \in EP |-> <<>>]
  /\ txtimers = [e \in EP |-> {}]
  /\ rx = [e \in EP |-> <<>>]

EngineInitWith(n) == EngineState(n) /\ chan = NoChan /\ tmr = NoTimer

EngineInit == EngineInitWith([e \in EP |-> {}])

GbnInit ==
  /\ engine = "gbn"
  /\ \E w \in CfgWnd : wnd = bb_proto_gbn_create_wnd(w)
  /\ \E m \in CfgMss : mss = bb_proto_gbn_create_mss(m)
  /\ init_seq \in CfgInitSeq
  /\ lossy = FALSE
  /\ trace = FALSE
  /\ EngineInit

\* bb_proto_send (GBN) of the message data at endpoint e; bad as in
\* GbnSendLoopCh.
GbnSendDataCh(e, data, kepts, bad) ==
    /\ Len(msgs[1]) + Len(msgs[2]) < MaxSends
    /\ LET len == Len(data)
           snap == SubSeq(data, 1, Min(len, GbnOutCap))
           r == GbnSendLoopCh(snap, 0, snd_una[e], snd_nxt[e], rcv_nxt[e], <<>>, bad)
       IN /\ bad <= Len(r.frames) + Len(r.queued)
          /\ outbuf' = [outbuf EXCEPT ![e] = snap]
          /\ snd_nxt' = [snd_nxt EXCEPT ![e] = r.nxt]
          /\ timer_running' = [timer_running EXCEPT ![e] = @ \/ Len(r.frames) > 0]
          /\ \E kept \in Survivors(r.frames \o r.queued, kepts) :
               /\ net' = bb_channel_send(net, Peer(e), r.frames \o r.queued, kept)
               /\ lost' = lost + Len(r.frames \o r.queued) - Cardinality(kept)
          /\ msgs' = [msgs EXCEPT ![e] = Append(@, data)]
          /\ origTx' = [origTx EXCEPT ![e] = @ \cup Pairs(r.frames)]
          /\ call' = CallF("send", e, Timeout, r.ret, r.frames, r.fail)
    /\ UNCHANGED <<cfgVars, ioVars, snd_una, rcv_nxt, rets, retx, capok, srVars>>

\* bb_proto_send (GBN) over a channel whose bb_channel_send never fails.
GbnSendData(e, data, kepts) == GbnSendDataCh(e, data, kepts, 0)

\* bb_proto_send (GBN) of a fresh message of len bytes at endpoint e.
GbnSendStep(e, len, kepts) == GbnSendData(e, NewData(e, len), kepts)

GbnSend(e) == \E len \in SendLens(e) : GbnSendStep(e, len, KeptSets)

\* bb_proto_recv (GBN) at endpoint e.  exp1 and exp2 say whether the clock
\* has passed the timer's deadline at the two timer_expired checks; h is the
\* outcome of bb_channel_recv (a datagram, or Timeout).
GbnRecvStep(e, cap, h, keep, exp1, exp2, kepts) ==
    LET una == snd_una[e]
        nxt == snd_nxt[e]
        rt1 == seq_cmp(nxt, una) > 0 /\ timer_running[e] /\ exp1
        r1 == IF rt1 THEN retransmit_window_from_snapshot(outbuf[e], una, nxt, rcv_nxt[e])
              ELSE [frames |-> <<>>, timer |-> timer_running[e]]
        rt2 == h = Timeout /\ seq_cmp(nxt, una) > 0 /\ r1.timer /\ exp2
        r2 == IF rt2 THEN retransmit_window_from_snapshot(outbuf[e], una, nxt, rcv_nxt[e])
              ELSE [frames |-> <<>>, timer |-> r1.timer]
        parsed == h \notin {Corrupt, Timeout}
        acked == parsed /\ GbnAckAccepted(h.ack, una, nxt)
        una2 == IF acked THEN h.ack ELSE una
        timer3 == IF acked THEN seq_cmp(una2, nxt) # 0 ELSE r2.timer
        did == IF ~acked THEN "kept" ELSE IF seq_cmp(una2, nxt) = 0 THEN "stopped" ELSE "armed"
        isdata == parsed /\ h.flags = BB_FLAG_DATA
        inorder == isdata /\ seq_cmp(h.seq, rcv_nxt[e]) = 0
        L == Min(Len(h.pl), cap)
        rn2 == IF inorder THEN bb_next_seq(rcv_nxt[e]) ELSE rcv_nxt[e]
        acks == IF isdata THEN <<AckFrame(rn2)>> ELSE <<>>
        offered == r1.frames \o r2.frames \o acks
    IN /\ snd_una' = [snd_una EXCEPT ![e] = una2]
       /\ timer_running' = [timer_running EXCEPT ![e] = timer3]
       /\ rcv_nxt' = [rcv_nxt EXCEPT ![e] = rn2]
       /\ rets' = [rets EXCEPT ![e] = IF inorder /\ L > 0 THEN Append(@, SubSeq(h.pl, 1, L)) ELSE @]
       /\ retx' = [retx EXCEPT ![e] = Pairs(r1.frames) \cup Pairs(r2.frames)]
       /\ capok' = (capok /\ cap >= mss)
       /\ call' = CallT("recv", e, h, IF inorder THEN L ELSE 0, offered, "none", did)
       /\ \E kept \in Survivors(offered, kepts) :
            /\ net' = bb_channel_send(AfterRecv(e, h, keep), Peer(e), offered, kept)
            /\ lost' = lost + Len(offered) - Cardinality(kept)
       /\ UNCHANGED <<cfgVars, ioVars, snd_nxt, outbuf, msgs, origTx, srVars>>

GbnRecv(e) ==
  \E cap \in Caps, h \in bb_channel_recv(e), keep \in KeepSet,
     exp1 \in timer_expired(timer_running[e]) :
    \E exp2 \in (IF h = Timeout THEN BOOLEAN ELSE {FALSE}) :
      GbnRecvStep(e, cap, h, keep, exp1, exp2, KeptSets)

GbnNext == \E e \in EP : GbnSend(e) \/ GbnRecv(e)

GbnSpec == GbnInit /\ [][GbnNext]_vars

\* -------------------------------------------------------------------- SR
BB_MAX_WND == 256
SrBufCap == 1600
SrCfgWnd == {0, 1, 3, 257}

\* Mutant of bb_proto_sr_create_wnd: the clamp to BB_MAX_WND is missing.
SrCreateWndNoClamp(w) == IF w = 0 THEN DefaultWnd ELSE w

\* bb_proto_sr_create: default and clamp of cfg.wnd, default of cfg.mss.
bb_proto_sr_create_wnd(w) ==
  IF w = 0 THEN DefaultWnd ELSE IF w > BB_MAX_WND THEN BB_MAX_WND ELSE w
bb_proto_sr_create_mss(m) == IF m = 0 THEN DefaultMss ELSE m

wrap_idx(x, w) == IF w # 0 THEN x % w ELSE 0

Drop(f, i) == [k \in DOMAIN f \ {i} |-> f[k]]

\* Mutant of SrAckLoop: snd_una moves to the ack and the slots passed are
\* neither freed nor disarmed.
SrAckLoopKeepSlots(una, txs, tms, ack) ==
  [una |-> IF seq_cmp(una, ack) < 0 THEN ack ELSE una, tx |-> txs, timers |-> tms]

\* The while loop of consume_ack_any: snd_una steps up to ack, freeing the
\* slot of every sequence passed and disarming its timer.
RECURSIVE SrAckLoop(_, _, _, _)
SrAckLoop(una, txs, tms, ack) ==
  IF seq_cmp(una, ack) < 0
  THEN LET i == wrap_idx(una, wnd)
       IN IF i \in DOMAIN txs
          THEN SrAckLoop((una + 1) % SeqMod, Drop(txs, i), tms \ {i}, ack)
          ELSE SrAckLoop((una + 1) % SeqMod, txs, tms, ack)
  ELSE [una |-> una, tx |-> txs, timers |-> tms]

\* consume_ack_any: acks in [snd_una, snd_nxt] are accepted.
consume_ack_any(una, nxt, txs, tms, ack) ==
  IF seq_cmp(ack, una) >= 0 /\ seq_cmp(ack, nxt) <= 0
  THEN SrAckLoop(una, txs, tms, ack)
  ELSE [una |-> una, tx |-> txs, timers |-> tms]

\* The retransmission loop of bb_proto_send over q in [snd_una, snd_nxt):
\* a slot in use whose timer has expired is resent and its timer re-armed
\* (so it is not expired at a second visit in the same pass).
\* The record of an SR pass keeps, in its timer field, the slots whose
\* timers bb_timer_expired reports as expired when the pass starts.
RECURSIVE SrRetxLoop(_, _, _, _, _, _, _)
SrRetxLoop(q, nxt, txs, tms, expired, ack, frames) ==
  IF seq_cmp(nxt, q) <= 0 THEN frames
  ELSE LET i == wrap_idx(q, wnd)
       IN IF i \in DOMAIN txs /\ i \in tms /\ i \in expired
          THEN SrRetxLoop((q + 1) % SeqMod, nxt, txs, tms, expired \ {i}, ack,
                 IF bb_wire_pack_fits(SrBufCap, Len(txs[i]))
                 THEN Append(frames, DataFrame(q, ack, txs[i])) ELSE frames)
          ELSE SrRetxLoop((q + 1) % SeqMod, nxt, txs, tms, expired, ack, frames)

\* The drain loop of bb_proto_recv: consecutive buffered segments are freed
\* and rcv_nxt advanced past them.
RECURSIVE SrRxDrain(_, _)
SrRxDrain(rn, rxs) ==
  IF wrap_idx(rn, wnd) \in DOMAIN rxs
  THEN SrRxDrain((rn + 1) % SeqMod, Drop(rxs, wrap_idx(rn, wnd)))
  ELSE [rcv_nxt |-> rn, rx |-> rxs]

\* Mutant of SrInWindow: sequences behind rcv_nxt are not rejected.
SrInWindowNoLower(q, rn) == ~(seq_cmp(q, (rn + wnd) % SeqMod) >= 0)

\* The two window tests of bb_proto_recv: a DATA frame passes them when its
\* sequence is neither at or beyond rcv_nxt + wnd nor behind rcv_nxt.
SrInWindow(q, rn) ==
  ~(seq_cmp(q, (rn + wnd) % SeqMod) >= 0) /\ ~(seq_cmp(q, rn) < 0)

\* What a parsed or unparsed datagram does to the sender state.
SrConsume(e, h) ==
  IF h \notin {Corrupt, Timeout}
  THEN consume_ack_any(snd_una[e], snd_nxt[e], tx[e], txtimers[e], h.ack)
  ELSE [una |-> snd_una[e], tx |-> tx[e], timers |-> txtimers[e]]

SrInit ==
  /\ engine = "sr"
  /\ \E w \in SrCfgWnd : wnd = bb_proto_sr_create_wnd(w)
  /\ \E m \in CfgMss : mss = bb_proto_sr_create_mss(m)
  /\ init_seq \in CfgInitSeq
  /\ lossy = FALSE
  /\ trace = FALSE
  /\ EngineInit

\* The application calls bb_proto_send (SR) with a message of len bytes.
SrSendCallOf(e, len) ==
    /\ pc[e] = "idle"
    /\ Len(msgs[1]) + Len(msgs[2]) < MaxSends
    /\ LET data == NewData(e, len)
       IN /\ sdata' = [sdata EXCEPT ![e] = data]
          /\ msgs' = [msgs EXCEPT ![e] = Append(@, data)]
    /\ soff' = [soff EXCEPT ![e] = 0]
    /\ pc' = [pc EXCEPT ![e] = IF len > 0 THEN "send" ELSE "drain"]
    /\ call' = Call("send_call", e, Timeout, 0, <<>>)
    /\ UNCHANGED <<cfgVars, ioVars, snd_una, snd_nxt, rcv_nxt, net, lost, rets, origTx, retx,
                   capok, sret, tx, txtimers, rx, gbnVars>>

SrSendCall(e) == \E len \in SendLens(e) : SrSendCallOf(e, len)

\* One pass of the send loop of bb_proto_send (SR): poll, retransmit the
\* expired slots, then back off on a full window or send the next chunk.
\* chfail says whether bb_channel_send returns a negative value for the
\* chunk; the datagram was queued by the channel before its sendto failed.
SrSendIterCh(e, h, keep, expired, kepts, chfail) ==
  /\ pc[e] = "send"
  /\   LET a == SrConsume(e, h)
           rf == SrRetxLoop(a.una, snd_nxt[e], a.tx, a.timers, expired, rcv_nxt[e], <<>>)
           full == ((snd_nxt[e] - a.una) % SeqMod) >= wnd
           chunk == Min(Len(sdata[e]) - soff[e], mss)
           fits == bb_wire_pack_fits(SrBufCap, chunk)
           pl == SubSeq(sdata[e], soff[e] + 1, soff[e] + chunk)
           i == wrap_idx(snd_nxt[e], wnd)
           offered == ~full /\ fits
           sent == offered /\ ~chfail
           failed == ~full /\ ~sent
           new == IF sent THEN <<DataFrame(snd_nxt[e], rcv_nxt[e], pl)>> ELSE <<>>
           queued == IF offered /\ chfail THEN <<DataFrame(snd_nxt[e], rcv_nxt[e], pl)>> ELSE <<>>
       IN /\ chfail => offered
          /\ snd_una' = [snd_una EXCEPT ![e] = a.una]
          /\ retx' = [retx EXCEPT ![e] = Pairs(rf)]
          /\ \E kept \in Survivors(rf \o new \o queued, kepts) :
               /\ net' = bb_channel_send(AfterRecv(e, h, keep), Peer(e), rf \o new \o queued, kept)
               /\ lost' = lost + Len(rf \o new \o queued) - Cardinality(kept)
          /\ origTx' = [origTx EXCEPT ![e] = @ \cup Pairs(new)]
          /\ tx' = [tx EXCEPT ![e] = IF sent THEN (i :> pl) @@ a.tx ELSE a.tx]
          /\ txtimers' = [txtimers EXCEPT ![e] = IF sent THEN a.timers \cup {i} ELSE a.timers]
          /\ snd_nxt' = [snd_nxt EXCEPT ![e] = IF sent THEN (@ + 1) % SeqMod ELSE @]
          /\ soff' = [soff EXCEPT ![e] = IF sent THEN @ + chunk ELSE @]
          /\ pc' = [pc EXCEPT ![e] =
                      IF full THEN "send"
                      ELSE IF failed THEN "idle"
                      ELSE IF soff[e] + chunk < Len(sdata[e]) THEN "send" ELSE "drain"]
          /\ sret' = [sret EXCEPT ![e] = IF failed THEN -1 ELSE @]
          /\ call' = CallT("send_pass", e, h, IF failed THEN -1 ELSE 0, rf \o new,
                           IF ~failed THEN "none" ELSE IF fits THEN "channel" ELSE "pack",
                           expired)
  /\ UNCHANGED <<cfgVars, ioVars, rcv_nxt, msgs, rets, capok, sdata, rx, gbnVars>>

\* A pass over a channel whose bb_channel_send never fails.
SrSendIterStep(e, h, keep, expired, kepts) == SrSendIterCh(e, h, keep, expired, kepts, FALSE)

SrSendIter(e) ==
  \E h \in bb_channel_recv(e), keep \in KeepSet, expired \in SUBSET txtimers[e] :
    SrSendIterStep(e, h, keep, expired, KeptSets)

\* One pass of the drain loop of bb_proto_send (SR), entered while
\* snd_una < snd_nxt: a bounded receive, then the expired slots are resent.
SrDrainIterStep(e, h, keep, expired, kepts) ==
  /\ pc[e] = "drain"
  /\ seq_cmp(snd_una[e], snd_nxt[e]) < 0
  /\   LET a == SrConsume(e, h)
           rf == SrRetxLoop(a.una, snd_nxt[e], a.tx, a.timers, expired, rcv_nxt[e], <<>>)
       IN /\ snd_una' = [snd_una EXCEPT ![e] = a.una]
          /\ tx' = [tx EXCEPT ![e] = a.tx]
          /\ txtimers' = [txtimers EXCEPT ![e] = a.timers]
          /\ retx' = [retx EXCEPT ![e] = Pairs(rf)]
          /\ call' = CallT("drain_pass", e, h, 0, rf, "none", expired)
          /\ \E kept \in Survivors(rf, kepts) :
               /\ net' = bb_channel_send(AfterRecv(e, h, keep), Peer(e), rf, kept)
               /\ lost' = lost + Len(rf) - Cardinality(kept)
  /\ UNCHANGED <<cfgVars, ioVars, snd_nxt, rcv_nxt, msgs, rets, origTx, capok, pc, sdata,
                 soff, sret, rx, gbnVars>>

SrDrainIter(e) ==
  \E h \in bb_channel_recv(e), keep \in KeepSet, expired \in SUBSET txtimers[e] :
    SrDrainIterStep(e, h, keep, expired, KeptSets)

\* bb_proto_send (SR) leaves the drain loop and returns 0.
SrSendReturn(e) ==
  /\ pc[e] = "drain"
  /\ ~(seq_cmp(snd_una[e], snd_nxt[e]) < 0)
  /\ pc' = [pc EXCEPT ![e] = "idle"]
  /\ sret' = [sret EXCEPT ![e] = 0]
  /\ call' = Call("send_return", e, Timeout, 0, <<>>)
  /\ UNCHANGED <<cfgVars, ioVars, snd_una, snd_nxt, rcv_nxt, net, lost, msgs, rets, origTx, retx,
                 capok, sdata, soff, tx, txtimers, rx, gbnVars>>

\* bb_proto_recv (SR) at endpoint e.
SrRecvStep(e, cap, h, keep, kepts) ==
  /\ pc[e] = "idle"
  /\   LET a == SrConsume(e, h)
           isdata == h \notin {Corrupt, Timeout} /\ h.flags = BB_FLAG_DATA
           inwnd == isdata /\ SrInWindow(h.seq, rcv_nxt[e])
           i == wrap_idx(h.seq, wnd)
           rx1 == IF inwnd /\ i \notin DOMAIN rx[e] THEN (i :> h.pl) @@ rx[e] ELSE rx[e]
           hol == inwnd /\ h.seq = rcv_nxt[e]
           n == Min(Len(rx1[i]), cap)
           d == IF hol THEN SrRxDrain((rcv_nxt[e] + 1) % SeqMod, Drop(rx1, i))
                ELSE [rcv_nxt |-> rcv_nxt[e], rx |-> rx1]
           acks == IF isdata THEN <<AckFrame(d.rcv_nxt)>> ELSE <<>>
       IN /\ snd_una' = [snd_una EXCEPT ![e] = a.una]
          /\ tx' = [tx EXCEPT ![e] = a.tx]
          /\ txtimers' = [txtimers EXCEPT ![e] = a.timers]
          /\ rx' = [rx EXCEPT ![e] = d.rx]
          /\ rcv_nxt' = [rcv_nxt EXCEPT ![e] = d.rcv_nxt]
          /\ rets' = [rets EXCEPT ![e] = IF hol /\ n > 0 THEN Append(@, SubSeq(rx1[i], 1, n)) ELSE @]
          /\ capok' = (capok /\ cap >= mss)
          /\ call' = Call("recv", e, h, IF hol THEN n ELSE 0, acks)
          /\ \E kept \in Survivors(acks, kepts) :
               /\ net' = bb_channel_send(AfterRecv(e, h, keep), Peer(e), acks, kept)
               /\ lost' = lost + Len(acks) - Cardinality(kept)
  /\ UNCHANGED <<cfgVars, ioVars, snd_nxt, msgs, origTx, retx, pc, sdata, soff, sret, gbnVars>>

SrRecv(e) ==
  \E cap \in Caps, h \in bb_channel_recv(e), keep \in KeepSet :
    SrRecvStep(e, cap, h, keep, KeptSets)

SrNext ==
  \E e \in EP : SrSendCall(e) \/ SrSendIter(e) \/ SrDrainIter(e) \/ SrSendReturn(e) \/ SrRecv(e)

SrSpec == SrInit /\ [][SrNext]_vars

\* ------------------------------------- specifications that keep the call
\* The engines with the record of the latest call kept, for the claims about
\* what a single call returns and offers to the channel.
\* A datagram of a foreign sender on its way to endpoint 2: a DATA frame
\* half the sequence space ahead of the session, acknowledging a sequence
\* endpoint 2 never sends.
Stray == DataFrame((init_seq + SeqMod \div 2) % SeqMod, (init_seq + 2) % SeqMod, <<99>>)
StrayNet == [e \in EP |-> IF e = 2 THEN {Stray} ELSE {}]

GbnCallInit ==
  /\ engine = "gbn"
  /\ wnd = bb_proto_gbn_create_wnd(2)
  /\ mss = bb_proto_gbn_create_mss(1)
  /\ init_seq = SeqMod - 1
  /\ lossy = FALSE
  /\ trace = TRUE
  /\ EngineInitWith(StrayNet)

\* Endpoint 1 sends; both endpoints call recv.
GbnCallNext == GbnSend(1) \/ \E e \in EP : GbnRecv(e)

GbnCallSpec == GbnCallInit /\ [][GbnCallNext]_vars

SrCallInit ==
  /\ engine = "sr"
  /\ \E w \in {1, 3} : wnd = bb_proto_sr_create_wnd(w)
  /\ mss = bb_proto_sr_create_mss(1)
  /\ init_seq \in CfgInitSeq
  /\ lossy = FALSE
  /\ trace = TRUE
  /\ EngineInitWith(StrayNet)

SrCallSpec == SrCallInit /\ [][SrNext]_vars

\* Both engines, each session running the engine it was created with.
CallInit == GbnCallInit \/ SrCallInit

CallNext == (engine = "gbn" /\ GbnCallNext) \/ (engine = "sr" /\ SrNext)

CallSpec == CallInit /\ [][CallNext]_vars

\* ------------------------------------------------- fair specifications
\* One endpoint (1) sends one message and its peer (2) only calls recv, over
\* the lossy channel.  The sequence numbers that can occur in these runs:
LiveSeqs == {(i + k) % SeqMod : i \in CfgInitSeq, k \in 0..MaxLen}
AllKept == {1..MaxOffer}

\* The DATA datagrams with sequence q, and the datagrams acknowledging up
\* to q, on their way to e.
DataOf(e, q) == {f \in net[e] : f.flags = BB_FLAG_DATA /\ f.seq = q}
AcksOf(e, q) == {f \in net[e] : f.flags = BB_FLAG_ACK /\ f.ack = q}

GbnLiveInit ==
  /\ engine = "gbn"
  /\ \E w \in {1, 2} : wnd = bb_proto_gbn_create_wnd(w)
  /\ mss = bb_proto_gbn_create_mss(1)
  /\ init_seq \in CfgInitSeq
  /\ lossy = TRUE
  /\ trace = FALSE
  /\ EngineInit

GbnLiveSend == msgs[1] = <<>> /\ GbnSend(1)

GbnLiveNext == GbnLiveSend \/ \E e \in EP : GbnRecv(e)

\* A recv call whose bb_channel_recv timed out after the timer's deadline
\* and whose retransmissions all passed the loss decision.
GbnRecvTimeout(e) == GbnRecvStep(e, RecvBufCap, Timeout, TRUE, TRUE, TRUE, AllKept)

\* A recv call to which the channel hands one of the datagrams fs and whose
\* own datagrams all pass the loss decision.
GbnRecvOf(e, fs) ==
  \E f \in fs, x \in BOOLEAN : GbnRecvStep(e, RecvBufCap, f, FALSE, x, FALSE, AllKept)

\* Both endpoints keep calling recv, time passes, retransmissions are not
\* lost forever, and a datagram the channel has queued is handed over.
GbnLive ==
  /\ GbnLiveInit /\ [][GbnLiveNext]_vars
  /\ \A e \in EP : WF_vars(GbnRecvTimeout(e))
  /\ \A q \in LiveSeqs : WF_vars(GbnRecvOf(2, DataOf(2, q)))
  /\ \A q \in LiveSeqs : WF_vars(GbnRecvOf(1, AcksOf(1, q)))

\* The lossy session of a single-segment message: as GbnLive, with a message
\* of at most mss bytes.
GbnLossInit ==
  /\ engine = "gbn"
  /\ \E w \in {1, 2} : wnd = bb_proto_gbn_create_wnd(w)
  /\ \E m \in {1, 2} : mss = bb_proto_gbn_create_mss(m)
  /\ init_seq \in CfgInitSeq
  /\ lossy = TRUE
  /\ trace = FALSE
  /\ EngineInit

GbnLossSend ==
  /\ msgs[1] = <<>>
  /\ \E len \in 1..mss : GbnSendStep(1, len, KeptSets)

\* bb_proto_recv called with a buffer no smaller than a segment.
GbnLossRecv(e) ==
  \E h \in bb_channel_recv(e), keep \in KeepSet,
     exp1 \in timer_expired(timer_running[e]) :
    \E exp2 \in (IF h = Timeout THEN BOOLEAN ELSE {FALSE}) :
      GbnRecvStep(e, RecvBufCap, h, keep, exp1, exp2, KeptSets)

GbnLossNext == GbnLossSend \/ \E e \in EP : GbnLossRecv(e)

GbnLoss ==
  /\ GbnLossInit /\ [][GbnLossNext]_vars
  /\ \A e \in EP : WF_vars(GbnRecvTimeout(e))
  /\ \A q \in LiveSeqs : WF_vars(GbnRecvOf(2, DataOf(2, q)))
  /\ \A q \in LiveSeqs : WF_vars(GbnRecvOf(1, AcksOf(1, q)))

\* The echo session: endpoint 1 (the client) sends one single-segment
\* message, endpoint 2 (the server) sends back what its recv returned, and
\* both keep calling recv.  The channel drops and duplicates nothing: every
\* datagram offered is queued and leaves the channel when it is received.
\* The timers may still expire before an ack arrives.
EchoInitSeq == 1

GbnEchoInit ==
  /\ engine = "gbn"
  /\ \E w \in {1, 2} : wnd = bb_proto_gbn_create_wnd(w)
  /\ \E m \in {1, 2} : mss = bb_proto_gbn_create_mss(m)
  /\ init_seq = EchoInitSeq
  /\ lossy = TRUE
  /\ trace = FALSE
  /\ EngineInit

GbnEchoSend ==
  /\ msgs[1] = <<>>
  /\ \E len \in 1..mss : GbnSendStep(1, len, AllKept)

GbnEchoReply ==
  /\ msgs[2] = <<>> /\ rets[2] # <<>>
  /\ GbnSendData(2, rets[2][1], AllKept)

GbnEchoRecv(e) ==
  \E h \in net[e] \cup {Timeout}, exp1 \in timer_expired(timer_running[e]) :
    \E exp2 \in (IF h = Timeout THEN BOOLEAN ELSE {FALSE}) :
      GbnRecvStep(e, RecvBufCap, h, FALSE, exp1, exp2, AllKept)

GbnEchoNext == GbnEchoSend \/ GbnEchoReply \/ \E e \in EP : GbnEchoRecv(e)

\* The sequence numbers of an echo session.
EchoSeqs == {EchoInitSeq, bb_next_seq(EchoInitSeq)}

\* The server answers, both endpoints keep calling recv, and a datagram the
\* channel has queued is handed over.
GbnEcho ==
  /\ GbnEchoInit /\ [][GbnEchoNext]_vars
  /\ WF_vars(GbnEchoReply)
  /\ \A e \in EP : \A q \in EchoSeqs :
       WF_vars(GbnRecvOf(e, DataOf(e, q))) /\ WF_vars(GbnRecvOf(e, AcksOf(e, q)))

SrLiveInit ==
  /\ engine = "sr"
  /\ \E w \in {1, 3} : wnd = bb_proto_sr_create_wnd(w)
  /\ mss = bb_proto_sr_create_mss(1)
  /\ init_seq \in CfgInitSeq
  /\ lossy = TRUE
  /\ trace = FALSE
  /\ EngineInit

SrLiveSendCall == msgs[1] = <<>> /\ SrSendCall(1)

SrLiveNext ==
  SrLiveSendCall \/ SrSendIter(1) \/ SrDrainIter(1) \/ SrSendReturn(1) \/ SrRecv(2)

\* A pass of the send or drain loop in which every armed timer has expired
\* and every retransmission passes the loss decision.
SrPassExpired(e) ==
  \/ SrSendIterStep(e, Timeout, TRUE, txtimers[e], AllKept)
  \/ SrDrainIterStep(e, Timeout, TRUE, txtimers[e], AllKept)

\* A pass of the send or drain loop to which the channel hands one of the
\* datagrams fs.
SrPassOf(e, fs) ==
  \E f \in fs, expired \in SUBSET txtimers[e] :
    \/ SrSendIterStep(e, f, FALSE, expired, KeptSets)
    \/ SrDrainIterStep(e, f, FALSE, expired, KeptSets)

\* A recv call to which the channel hands one of the datagrams fs and whose
\* ACK passes the loss decision.
SrRecvOf(e, fs) == \E f \in fs : SrRecvStep(e, RecvBufCap, f, FALSE, AllKept)

\* The sender's loop keeps running, time passes, the peer keeps calling
\* recv, retransmissions are not lost forever, and a datagram the channel
\* has queued is handed over.
SrLive ==
  /\ SrLiveInit /\ [][SrLiveNext]_vars
  /\ WF_vars(SrSendIter(1)) /\ WF_vars(SrSendReturn(1))
  /\ WF_vars(SrPassExpired(1))
  /\ \A q \in LiveSeqs : WF_vars(SrRecvOf(2, DataOf(2, q)))
  /\ \A q \in LiveSeqs : WF_vars(SrPassOf(1, AcksOf(1, q)))

\* Both engines over a channel that drops datagrams and duplicates none,
\* with the record of the latest call kept: a GBN session of a
\* single-segment message, or an SR session of one message.  A datagram
\* damaged in flight is a datagram the channel dropped and a
\* bb_channel_recv that returns bytes failing validation.
GbnDropInit ==
  /\ engine = "gbn"
  /\ \E w \in {1, 2} : wnd = bb_proto_gbn_create_wnd(w)
  /\ mss = bb_proto_gbn_create_mss(1)
  /\ init_seq \in CfgInitSeq
  /\ lossy = TRUE
  /\ trace = TRUE
  /\ EngineInit

SrDropInit ==
  /\ engine = "sr"
  /\ wnd = bb_proto_sr_create_wnd(3)
  /\ mss = bb_proto_sr_create_mss(1)
  /\ init_seq \in CfgInitSeq
  /\ lossy = TRUE
  /\ trace = TRUE
  /\ EngineInit

DropInit == GbnDropInit \/ SrDropInit

GbnDropRecv(e) ==
  \E h \in bb_channel_recv(e), exp1 \in timer_expired(timer_running[e]) :
    \E exp2 \in (IF h = Timeout THEN BOOLEAN ELSE {FALSE}) :
      GbnRecvStep(e, RecvBufCap, h, FALSE, exp1, exp2, KeptSets)

SrDropPass(e) ==
  \E h \in bb_channel_recv(e), expired \in SUBSET txtimers[e] :
    \/ SrSendIterStep(e, h, FALSE, expired, KeptSets)
    \/ SrDrainIterStep(e, h, FALSE, expired, KeptSets)

SrDropRecv(e) ==
  \E h \in bb_channel_recv(e) : SrRecvStep(e, RecvBufCap, h, FALSE, KeptSets)

GbnDropNext == GbnLossSend \/ \E e \in EP : GbnDropRecv(e)

SrDropNext == SrLiveSendCall \/ SrDropPass(1) \/ SrSendReturn(1) \/ SrDropRecv(2)

DropNext == (engine = "gbn" /\ GbnDropNext) \/ (engine = "sr" /\ SrDropNext)

\* A pass of the send or drain loop to which the channel hands one of the
\* datagrams fs before any timer has expired.
SrPassAck(e, fs) ==
  \E f \in fs :
    \/ SrSendIterStep(e, f, FALSE, {}, AllKept)
    \/ SrDrainIterStep(e, f, FALSE, {}, AllKept)

\* Both endpoints keep calling recv, the SR sender's loop keeps running,
\* time passes, retransmissions are not lost forever, and a datagram the
\* channel has queued is handed over.
DropLive ==
  /\ DropInit /\ [][DropNext]_vars
  /\ \A e \in EP : WF_vars(engine = "gbn" /\ GbnRecvTimeout(e))
  /\ \A q \in LiveSeqs : WF_vars(engine = "gbn" /\ GbnRecvOf(2, DataOf(2, q)))
  /\ \A q \in LiveSeqs : WF_vars(engine = "gbn" /\ GbnRecvOf(1, AcksOf(1, q)))
  /\ WF_vars(SrSendReturn(1))
  /\ WF_vars(SrPassExpired(1))
  /\ \A q \in LiveSeqs : WF_vars(engine = "sr" /\ SrRecvOf(2, DataOf(2, q)))
  /\ \A q \in LiveSeqs : WF_vars(SrPassAck(1, AcksOf(1, q)))

\* ------------------------------------------ sessions whose send may fail
\* Both engines with an mss of one byte, or of one byte more than the
\* engine's datagram buffer holds after the header, over a channel whose
\* bb_channel_send may return a negative value, with the record of the
\* latest call kept.  Endpoint 1 sends and endpoint 2 only calls recv.
GbnFailInit ==
  /\ engine = "gbn"
  /\ wnd = bb_proto_gbn_create_wnd(2)
  /\ \E m \in {1, GbnBufCap - HdrSize + 1} : mss = bb_proto_gbn_create_mss(m)
  /\ init_seq = SeqMod - 1
  /\ lossy = FALSE
  /\ trace = TRUE
  /\ EngineInit

SrFailInit ==
  /\ engine = "sr"
  /\ wnd = bb_proto_sr_create_wnd(3)
  /\ \E m \in {1, SrBufCap - HdrSize + 1} : mss = bb_proto_sr_create_mss(m)
  /\ init_seq \in CfgInitSeq
  /\ lossy = FALSE
  /\ trace = TRUE
  /\ EngineInit

FailInit == GbnFailInit \/ SrFailInit

\* The message lengths handed to send: short messages of one-byte
\* segments, or a single segment that just fits or just fails to fit.
FailLens == IF mss = 1 THEN 1..MaxLen ELSE {mss - 1, mss}

GbnFailSend ==
  \E len \in FailLens, bad \in 0..MaxLen : GbnSendDataCh(1, NewData(1, len), KeptSets, bad)

SrFailSendCall == \E len \in FailLens : SrSendCallOf(1, len)

SrFailSendIter ==
  \E h \in bb_channel_recv(1), expired \in SUBSET txtimers[1], chfail \in BOOLEAN :
    SrSendIterCh(1, h, TRUE, expired, KeptSets, chfail)

SrFailRecv ==
  \E h \in bb_channel_recv(2) : SrRecvStep(2, RecvBufCap, h, TRUE, KeptSets)

GbnFailNext == GbnFailSend \/ \E e \in EP : GbnLossRecv(e)

SrFailNext ==
  SrFailSendCall \/ SrFailSendIter \/ SrDrainIter(1) \/ SrSendReturn(1) \/ SrFailRecv

FailNext == (engine = "gbn" /\ GbnFailNext) \/ (engine = "sr" /\ SrFailNext)

FailSpec == FailInit /\ [][FailNext]_vars

\* ------------------------------------------------------- the wire codec
\* Frames as byte strings (src/bb_wire.c, src/bb_checksum.c).  The header
\* is the packed struct bb_hdr_t copied verbatim, fields in little-endian
\* order: magic at byte 1 (two bytes), flags at 3, hdrlen at 4, seq at 5,
\* ack at 9, len at 13 (two bytes) and crc32c at 15 (four bytes).  A
\* uint32_t is held as its four bytes, least significant first, and the
\* checksums work on its two 16-bit halves <<low, high>>.
BB_MAGIC == 45438
WireHdrLen == 10
FletcherBlock == 360
Crc32cPolyLo == 15224
Crc32cPolyHi == 33526
U16 == 2 ^ 16

\* The k bytes of x, least significant first, and the value of such bytes.
RECURSIVE LE(_, _)
LE(x, k) == IF k = 0 THEN <<>> ELSE <<x % 256>> \o LE(x \div 256, k - 1)

RECURSIVE FromLE(_)
FromLE(bs) == IF bs = <<>> THEN 0 ELSE bs[1] + 256 * FromLE(Tail(bs))

\* The four bytes of the uint32_t with halves c = <<low, high>>.
U32Bytes(c) == LE(c[1], 2) \o LE(c[2], 2)

RECURSIVE BitXor(_, _)
BitXor(a, b) ==
  IF a = 0 THEN b ELSE IF b = 0 THEN a
  ELSE ((a + b) % 2) + 2 * BitXor(a \div 2, b \div 2)

RECURSIVE BitOr(_, _)
BitOr(a, b) ==
  IF a = 0 THEN b ELSE IF b = 0 THEN a
  ELSE (IF a % 2 = 1 \/ b % 2 = 1 THEN 1 ELSE 0) + 2 * BitOr(a \div 2, b \div 2)

\* (x & 0xffff) + (x >> 16)
Fold16(x) == (x % U16) + (x \div U16)

\* The loop of bb_fletcher32 after i bytes: the sums are folded at the end
\* of every block of FletcherBlock bytes and of the last block (within a
\* block the sums stay below 2^31).
RECURSIVE FletcherLoop(_, _, _, _)
FletcherLoop(data, i, sum1, sum2) ==
  IF i = Len(data) THEN <<sum1, sum2>>
  ELSE LET a == sum1 + data[i + 1]
           b == sum2 + a
           j == i + 1
       IN IF j % FletcherBlock = 0 \/ j = Len(data)
          THEN FletcherLoop(data, j, Fold16(a), Fold16(b))
          ELSE FletcherLoop(data, j, a, b)

\* bb_fletcher32: (sum2 << 16) | sum1 as a uint32_t.
bb_fletcher32(data) ==
  LET r == FletcherLoop(data, 0, U16 - 1, U16 - 1)
      sum1 == Fold16(r[1])
      sum2 == Fold16(r[2])
  IN <<sum1 % U16, BitOr(sum2 % U16, sum1 \div U16)>>

\* The two halves of a uint32_t, and a byte.
Halves == (0..(U16 - 1)) \X (0..(U16 - 1))
Bytes == 0..255

\* One bit of the CRC32C instruction: shift right, and add the reflected
\* polynomial 0x82F63B78 when a one was shifted out.
Crc32cBit ==
  [c \in Halves |->
     LET lo == (c[1] \div 2) + (c[2] % 2) * (U16 \div 2)
         hi == c[2] \div 2
     IN IF c[1] % 2 = 1 THEN <<BitXor(lo, Crc32cPolyLo), BitXor(hi, Crc32cPolyHi)>>
        ELSE <<lo, hi>>]

\* __builtin_ia32_crc32qi(crc, byte)
Crc32cByte ==
  [x \in Halves \X Bytes |->
     Crc32cBit[Crc32cBit[Crc32cBit[Crc32cBit[
       Crc32cBit[Crc32cBit[Crc32cBit[Crc32cBit[<<BitXor(x[1][1], x[2]), x[1][2]>>]]]]]]]]]

RECURSIVE Crc32cLoop(_, _, _)
Crc32cLoop(data, i, crc) ==
  IF i = Len(data) THEN crc ELSE Crc32cLoop(data, i + 1, Crc32cByte[<<crc, data[i + 1]>>])

\* The ways the program is built and run: without SSE4.2 in the processor
\* bb_crc32c_hw_available is false and the checksum is Fletcher-32; with it
\* the checksum is bb_crc32c_hw, which is the CRC32C of the bytes when the
\* compiler defines __SSE4_2__ and the constant 0 when it does not.
Builds == {"fletcher32", "crc32c", "crc32c_stub"}

bb_crc32c_hw(build, data) ==
  IF build = "crc32c"
  THEN LET c == Crc32cLoop(data, 0, <<U16 - 1, U16 - 1>>)
       IN <<(U16 - 1) - c[1], (U16 - 1) - c[2]>>
  ELSE <<0, 0>>

\* bb_crc32c_hw_available() ? bb_crc32c_hw(buf, n) : bb_fletcher32(buf, n),
\* as the four bytes of the result.
Checksum(build, data) ==
  U32Bytes(IF build = "fletcher32" THEN bb_fletcher32(data) ELSE bb_crc32c_hw(build, data))

\* The bytes of a bb_hdr_t.
HdrBytes(h) ==
  LE(h.magic, 2) \o <<h.flags, h.hdrlen>> \o h.seq \o h.ack \o LE(h.len, 2) \o h.crc32c

\* memcpy(out, buf, sizeof(bb_hdr_t))
HdrOf(buf) ==
  [magic |-> FromLE(SubSeq(buf, 1, 2)), flags |-> buf[3], hdrlen |-> buf[4],
   seq |-> SubSeq(buf, 5, 8), ack |-> SubSeq(buf, 9, 12),
   len |-> FromLE(SubSeq(buf, 13, 14)), crc32c |-> SubSeq(buf, 15, 18)]

\* buf with the crc32c field set to the bytes crc.
WithCrc(buf, crc) == SubSeq(buf, 1, 14) \o crc \o SubSeq(buf, 19, Len(buf))

\* Mutant of ZeroCrc: the crc32c field is left as received.
ZeroCrcKept(buf) == buf

\* buf with the crc32c field set to 0.
ZeroCrc(buf) == WithCrc(buf, <<0, 0, 0, 0>>)

\* bb_wire_pack: the bytes written to buf; the return value is their number
\* (0 and nothing written when cap is too small).
bb_wire_pack(build, cap, flags, seq, ack, payload) ==
  IF ~bb_wire_pack_fits(cap, Len(payload)) THEN <<>>
  ELSE LET h == [magic |-> BB_MAGIC, flags |-> flags, hdrlen |-> WireHdrLen,
                 seq |-> seq, ack |-> ack, len |-> Len(payload),
                 crc32c |-> <<0, 0, 0, 0>>]
           raw == HdrBytes(h) \o payload
       IN WithCrc(raw, Checksum(build, raw))

\* bb_wire_parse of the n = Len(buf) received bytes: whether the frame is
\* accepted, the header copied out and the payload slice of hdr.len bytes
\* at *payload_out.
WireRejected == [ok |-> FALSE]

bb_wire_parse(build, buf) ==
  IF Len(buf) < HdrSize THEN WireRejected
  ELSE LET out == HdrOf(buf)
       IN IF out.magic # BB_MAGIC THEN WireRejected
          ELSE IF out.crc32c # Checksum(build, ZeroCrc(buf)) THEN WireRejected
          ELSE IF Len(buf) < HdrSize + out.len THEN WireRejected
          ELSE [ok |-> TRUE, hdr |-> out,
                payload |-> SubSeq(buf, HdrSize + 1, HdrSize + out.len)]

\* The codec on its own: a frame is packed, altered on their way by one
\* byte or in length (with the checksum recomputed by whoever alters them,
\* or not), and parsed.  call records the latest operation: h its
\* arguments, out the bytes written or handed to parse, ret the result.
engineVars ==
  <<cfgVars, snd_una, snd_nxt, rcv_nxt, net, lost, msgs, rets, origTx, retx, capok,
    gbnVars, srVars>>

WireFlags == {BB_FLAG_ACK, BB_FLAG_DATA}
WireSeqs == {<<0, 0, 0, 0>>, <<255, 255, 255, 255>>}
WireAcks == {<<2, 1, 0, 0>>}
WireBytes == {0, 255}
WirePayloads == UNION {[1..n -> WireBytes] : n \in 0..MaxLen}
WireCaps(len) == {HdrSize + len - 2, HdrSize + len - 1, HdrSize + len, GbnBufCap}

WireInit ==
  /\ engine = "none"
  /\ wnd = DefaultWnd
  /\ mss = DefaultMss
  /\ init_seq = EchoInitSeq
  /\ lossy = FALSE
  /\ trace = TRUE
  /\ EngineInit

WirePack ==
  /\ call.op = "none"
  /\ \E build \in Builds, flags \in WireFlags, seq \in WireSeqs, ack \in WireAcks,
        pl \in WirePayloads :
       \E cap \in WireCaps(Len(pl)) :
         LET buf == bb_wire_pack(build, cap, flags, seq, ack, pl)
         IN call' = [op |-> "pack", e |-> 0, fail |-> "none", timer |-> "kept",
                     h |-> [build |-> build, cap |-> cap, flags |-> flags,
                            seq |-> seq, ack |-> ack, pl |-> pl],
                     ret |-> Len(buf), out |-> buf]
  /\ UNCHANGED <<engineVars, ioVars>>

\* The bytes buf after whoever altered them has or has not recomputed the
\* checksum.
Refit(build, buf, fix) ==
  IF fix /\ Len(buf) >= HdrSize THEN WithCrc(buf, Checksum(build, ZeroCrc(buf))) ELSE buf

\* Every bit of one byte of the packed frame is flipped.
WireTamper ==
  /\ call.op = "pack" /\ call.ret > 0
  /\ \E i \in DOMAIN call.out, fix \in BOOLEAN :
       call' = [call EXCEPT !.op = "alter", !.ret = 0,
                            !.out = Refit(call.h.build, [call.out EXCEPT ![i] = 255 - @], fix)]
  /\ UNCHANGED <<engineVars, ioVars>>

\* The packed frame loses its last byte or gains one.
WireResize ==
  /\ call.op = "pack" /\ call.ret > 0
  /\ \E buf \in {SubSeq(call.out, 1, Len(call.out) - 1), Append(call.out, 0)},
        fix \in BOOLEAN :
       call' = [call EXCEPT !.op = "alter", !.ret = 0,
                            !.out = Refit(call.h.build, buf, fix)]
  /\ UNCHANGED <<engineVars, ioVars>>

\* bb_wire_parse of the bytes at hand, by the build that packed them.
WireParse ==
  /\ call.op \in {"pack", "alter"}
  /\ call' = [call EXCEPT !.op = "parse", !.ret = bb_wire_parse(call.h.build, call.out)]
  /\ UNCHANGED <<engineVars, ioVars>>

WireNext == WirePack \/ WireTamper \/ WireResize \/ WireParse

WireSpec == WireInit /\ [][WireNext]_vars

\* ------------------------------------------------------------ GBN claims
Outstanding(e) == seq_cmp(snd_nxt[e], snd_una[e])
\* The sequences in [snd_una, snd_nxt) of endpoint e.
InFlight(e) == {(snd_una[e] + k) % SeqMod : k \in 0..(Outstanding(e) - 1)}
RcvdBytes(e) == Flatten(rets[e])
SentBytes(e) == Flatten(msgs[e])

\* C1: provided every recv was given cap >= mss, the bytes returned by an
\* endpoint's recv calls are a prefix of the bytes passed to its peer's send.
GbnStreamPrefix ==
  capok => \A e \in EP : IsPrefix(RcvdBytes(e), SentBytes(Peer(e)))

\* C5: every retransmitted frame carries the payload of the frame first
\* sent with the same sequence number.
GbnRetxFidelity ==
  \A e \in EP : \A r \in retx[e] : r \in origTx[e]

\* C6: every positive recv return is one complete message of the peer.
RecvWholeMessage ==
  capok => \A e \in EP : \A i \in DOMAIN rets[e] : rets[e][i] \in Range(msgs[Peer(e)])

\* C7: the signed difference snd_nxt - snd_una lies in 0..wnd.
GbnWindowInv ==
  \A e \in EP : Outstanding(e) >= 0 /\ Outstanding(e) <= wnd

\* C7 witness: the window is full after the peer has delivered data and a
\* second send was made.
GbnWindowFull ==
  /\ Outstanding(1) = wnd
  /\ Len(msgs[1]) = 2
  /\ rets[2] # <<>>

\* a is one of una, una + 1, ..., nxt modulo SeqMod.
AckInRange(a, una, nxt) == ((a - una) % SeqMod) <= ((nxt - una) % SeqMod)

\* The calls and loop passes that process a received header.
AckOps == {"recv", "send_pass", "drain_pass"}

\* C12: a call that parsed a frame with ack value a sets snd_una to a
\* exactly when a is one of snd_una, ..., snd_nxt modulo the sequence space,
\* and otherwise leaves snd_una unchanged; the ack never changes snd_nxt.
AckAcceptance ==
  [][\A e \in EP :
      (call'.e = e /\ call'.op \in AckOps /\ call'.h \notin {Corrupt, Timeout})
      => /\ snd_una'[e] = IF AckInRange(call'.h.ack, snd_una[e], snd_nxt[e])
                           THEN call'.h.ack ELSE snd_una[e]
         /\ call'.op # "send_pass" => snd_nxt'[e] = snd_nxt[e]]_vars

\* C12 witness: with snd_una below the wrap and snd_nxt past it, an ack
\* value past the wrap was received and snd_una has moved to it.
AckAcrossWrap ==
  \E e \in EP :
    /\ call.e = e /\ call.op \in AckOps /\ call.h \notin {Corrupt, Timeout}
    /\ init_seq = SeqMod - 1 /\ call.h.ack < init_seq
    /\ snd_una[e] = call.h.ack /\ snd_nxt[e] = call.h.ack

\* C9: the timer is armed iff at least one segment is outstanding.
GbnTimerInv ==
  \A e \in EP : timer_running[e] <=> Outstanding(e) > 0

\* C3: every byte passed to send is eventually returned by the peer's recv.
GbnDelivers ==
  \A n \in 1..MaxLen :
    (Len(SentBytes(1)) >= n) ~> (Len(RcvdBytes(2)) >= n /\ RcvdBytes(2)[n] = SentBytes(1)[n])

\* C14: in an echo session over a channel that drops and duplicates nothing,
\* once the client has sent its one-segment message, eventually and from
\* then on the client's recv has returned exactly that message and both
\* endpoints have snd_una = snd_nxt = 2.
GbnEchoCompletes ==
  (msgs[1] # <<>>) ~>
    [](/\ rets[1] = msgs[1]
       /\ \A e \in EP : snd_una[e] = 2 /\ snd_nxt[e] = 2)

\* C14 witness: the echo has come back to the client.
GbnEchoDone ==
  /\ msgs[1] # <<>> /\ rets[2] = msgs[1] /\ msgs[2] = rets[2]
  /\ rets[1] = msgs[1]
  /\ \A e \in EP : snd_una[e] = 2 /\ snd_nxt[e] = 2

\* Every transmission of the message so far was dropped by the channel: the
\* message was sent, no DATA frame is queued and the receiver has not moved.
AllCopiesLost ==
  /\ msgs[1] # <<>> /\ DataOf(2, init_seq) = {}
  /\ rets[2] = <<>> /\ rcv_nxt[2] = init_seq

\* C15: over the lossy channel a one-segment message is returned by the
\* receiver's recv at most once and unaltered, and eventually is returned;
\* the sender eventually reaches snd_una = snd_nxt; and while every copy
\* sent so far was lost, a recv call of the sender eventually retransmits
\* the same sequence on timer expiry.
GbnLossRecovery ==
  /\ [](rets[2] = <<>> \/ rets[2] = msgs[1])
  /\ (msgs[1] # <<>>) ~> (rets[2] = msgs[1])
  /\ (msgs[1] # <<>>) ~> (snd_una[1] = snd_nxt[1])
  /\ AllCopiesLost ~> (\E r \in retx[1] : r[1] = init_seq)

\* C15 witness: datagrams were lost, the sender's latest recv call
\* retransmitted, and the message was delivered and acknowledged.
GbnLossRecovered ==
  /\ lost = MaxLost /\ retx[1] # {}
  /\ msgs[1] # <<>> /\ rets[2] = msgs[1]
  /\ snd_una[1] = snd_nxt[1]

\* The latest call was a recv at e whose datagram failed validation.
RecvInvalid(e) == call.op = "recv" /\ call.e = e /\ call.h = Corrupt

\* Sequence q of endpoint 1 is outstanding and no copy of it is queued, while
\* endpoint 2 has returned the bytes of the segments before q, waits for q
\* and holds nothing in its slots.
SegmentMissing(q) ==
  /\ q \in InFlight(1) /\ DataOf(2, q) = {}
  /\ rcv_nxt[2] = q /\ rx[2] = <<>>
  /\ IsPrefix(RcvdBytes(2), SentBytes(1))
  /\ Len(RcvdBytes(2)) = ((q - init_seq) % SeqMod) * mss

\* The latest call of endpoint 1 was a recv or a loop pass that resent q.
Resent(q) ==
  /\ call.e = 1 /\ call.op \in AckOps
  /\ \E i \in DOMAIN call.out :
       call.out[i].flags = BB_FLAG_DATA /\ call.out[i].seq = q

\* C16: in both engines a recv whose datagram fails validation returns 0,
\* leaves snd_una, snd_nxt, rcv_nxt, the receive slots and the returned
\* bytes unchanged and offers no ACK frame; and when the oldest outstanding
\* segment is missing at the receiver after such a recv, its sender
\* eventually resends it.
InvalidDropped ==
  /\ [][\A e \in EP :
         (call'.op = "recv" /\ call'.e = e /\ call'.h = Corrupt)
         => /\ call'.ret = 0
            /\ snd_una'[e] = snd_una[e] /\ snd_nxt'[e] = snd_nxt[e]
            /\ rcv_nxt'[e] = rcv_nxt[e] /\ rx'[e] = rx[e] /\ rets'[e] = rets[e]
            /\ \A i \in DOMAIN call'.out : call'.out[i].flags # BB_FLAG_ACK]_vars
  /\ (RecvInvalid(2) /\ SegmentMissing(snd_una[1])) ~> Resent(snd_una[1])

\* ----------------------------------------------------------- wire claims
\* C17: every byte string that parse accepts has magic 0xB17E and hdrlen
\* 10, a stored crc equal to the checksum of the bytes with the crc field
\* zeroed, and a declared len of at most the received bytes minus 16; so a
\* frame that breaks one of the four is rejected.
ParseAcceptance ==
  (call.op = "parse" /\ call.ret.ok) =>
    /\ FromLE(SubSeq(call.out, 1, 2)) = BB_MAGIC
    /\ call.out[4] = 10
    /\ SubSeq(call.out, 15, 18) = Checksum(call.h.build, ZeroCrc(call.out))
    /\ FromLE(SubSeq(call.out, 13, 14)) <= Len(call.out) - 16

\* With a header of hs bytes: pack returns hs + len, or 0 exactly when cap
\* is below that.
PackReturns(hs) ==
  call.op = "pack" =>
    call.ret = IF call.h.cap < hs + Len(call.h.pl) THEN 0 ELSE hs + Len(call.h.pl)

\* With a header of hs bytes and cap at least hs + len, parse of the bytes
\* pack wrote accepts them and yields the flags, seq, ack, len and payload
\* given to pack.
ParseOfPack(hs) ==
  (call.op = "pack" /\ call.h.cap >= hs + Len(call.h.pl) /\ call'.op = "parse")
  => /\ call'.ret.ok
     /\ call'.ret.hdr.flags = call.h.flags
     /\ call'.ret.hdr.seq = call.h.seq
     /\ call'.ret.hdr.ack = call.h.ack
     /\ call'.ret.hdr.len = Len(call.h.pl)
     /\ call'.ret.payload = call.h.pl

\* C18 as stated: the codec round trip with a header of 16 bytes.
CodecRoundTrip16 == []PackReturns(16) /\ [][ParseOfPack(16)]_vars

\* C18 amended: the codec round trip with the header of sizeof(bb_hdr_t) =
\* 18 bytes: for every flags, seq, ack and payload with cap >= 18 + len,
\* parse of the bytes written by pack succeeds and yields the same flags,
\* seq, ack, len and payload; pack returns 18 + len, and 0 exactly when
\* cap < 18 + len.
CodecRoundTrip18 == []PackReturns(HdrSize) /\ [][ParseOfPack(HdrSize)]_vars

\* C18 witness: a DATA frame with an empty payload was packed and parsed.
EmptyDataParsed ==
  /\ call.op = "parse" /\ call.ret.ok
  /\ call.h.flags = BB_FLAG_DATA /\ call.h.pl = <<>>
  /\ call.out = bb_wire_pack(call.h.build, call.h.cap, call.h.flags, call.h.seq,
                             call.h.ack, call.h.pl)
  /\ call.ret.payload = <<>> /\ Len(call.out) = HdrSize

\* ------------------------------------------------------------- SR claims
\* C4: an SR send call eventually returns 0.
SrSendTerminates ==
  (pc[1] # "idle") ~> (pc[1] = "idle" /\ sret[1] = 0)

\* C2: whatever the arrival order of the segments, the bytes returned by SR
\* recv are a prefix of the bytes passed to the peer's send, and the payload
\* of every sequence the receiver has moved past was returned (none skipped).
SrStreamPrefix ==
  capok => \A e \in EP :
    /\ IsPrefix(RcvdBytes(e), SentBytes(Peer(e)))
    /\ Len(rets[e]) = (rcv_nxt[e] - init_seq) % SeqMod

\* C8: 0 <= snd_nxt - snd_una <= wnd (signed), wnd is in 1..256 and every
\* slot in use lies inside the 256-entry tables.
SrWindowInv ==
  /\ wnd \in 1..BB_MAX_WND
  /\ \A e \in EP :
       /\ Outstanding(e) >= 0 /\ Outstanding(e) <= wnd
       /\ DOMAIN tx[e] \subseteq 0..(BB_MAX_WND - 1)
       /\ DOMAIN rx[e] \subseteq 0..(BB_MAX_WND - 1)
       /\ \A q \in InFlight(e) : wrap_idx(q, wnd) \in 0..(BB_MAX_WND - 1)

\* C8 witness: inside a send call the window is full.
SrWindowFull ==
  \E e \in EP : pc[e] = "send" /\ Outstanding(e) = wnd /\ tx[e] # <<>>

\* The sequences in [rcv_nxt, rcv_nxt + wnd) of endpoint e.
RcvWindow(e) == {(rcv_nxt[e] + k) % SeqMod : k \in 0..(wnd - 1)}

\* C11: every occupied receiver slot holds the payload of a received DATA
\* frame whose sequence lies in [rcv_nxt, rcv_nxt + wnd); a recv call that
\* received a DATA frame outside that window stores and delivers nothing,
\* leaves rcv_nxt unchanged, returns 0 and offers exactly one ACK carrying
\* rcv_nxt.
SrRxSlotInv ==
  /\ [](\A e \in EP : \A i \in DOMAIN rx[e] :
         \E f \in net[e] : /\ f.flags = BB_FLAG_DATA /\ f.pl = rx[e][i]
                           /\ f.seq \in RcvWindow(e) /\ wrap_idx(f.seq, wnd) = i)
  /\ [][\A e \in EP :
         (/\ call'.op = "recv" /\ call'.e = e /\ call'.h.flags = BB_FLAG_DATA
          /\ ~SrInWindow(call'.h.seq, rcv_nxt[e]))
         => (/\ rx'[e] = rx[e] /\ rets'[e] = rets[e] /\ rcv_nxt'[e] = rcv_nxt[e]
             /\ call'.ret = 0 /\ call'.out = <<AckFrame(rcv_nxt[e])>>)]_vars

\* C11 witness: with a segment buffered, recv received a DATA frame behind
\* the window and answered it with one ACK.
SrRxStaleAcked ==
  /\ call.op = "recv" /\ call.e = 2 /\ call.h.flags = BB_FLAG_DATA
  /\ seq_cmp(call.h.seq, rcv_nxt[2]) < 0
  /\ call.out = <<AckFrame(rcv_nxt[2])>>
  /\ rx[2] # <<>>

\* C13: SR recv returns the payload of each sequence at most once and in
\* increasing sequence order (the byte labels grow with the sequence); a
\* copy of a buffered sequence leaves the stored copy as it is, and a copy
\* of a delivered sequence changes nothing and is only acknowledged.
SrAtMostOnce ==
  /\ [](\A e \in EP : \A i, j \in DOMAIN RcvdBytes(e) :
         i < j => RcvdBytes(e)[i] < RcvdBytes(e)[j])
  /\ [][\A e \in EP :
         (call'.op = "recv" /\ call'.e = e /\ call'.h.flags = BB_FLAG_DATA)
         => /\ \A i \in DOMAIN rx[e] \cap DOMAIN rx'[e] : rx'[e][i] = rx[e][i]
            /\ seq_cmp(call'.h.seq, rcv_nxt[e]) < 0
               => (/\ rx'[e] = rx[e] /\ rets'[e] = rets[e] /\ rcv_nxt'[e] = rcv_nxt[e]
                   /\ call'.out = <<AckFrame(rcv_nxt[e])>>)]_vars

\* C10: sender slot i is in use iff some sequence in [snd_una, snd_nxt)
\* maps to it, and exactly the slots in use have their timer armed.
SrTxSlotInv ==
  \A e \in EP :
    /\ \A i \in 0..(wnd - 1) :
         i \in DOMAIN tx[e] <=> \E q \in InFlight(e) : wrap_idx(q, wnd) = i
    /\ txtimers[e] = DOMAIN tx[e]

\* ------------------------------------------------- the channel object
\* struct bb_channel_s and its operations (src/bb_channel.c), one object per
\* run.  Time is counted in whole milliseconds of the monotonic clock.  A
\* 64-bit word is held as four 16-bit limbs, least significant first.
\* Percentages are multiples of 25, so that a Bernoulli decision depends on
\* the two top bits of the generator's output only.
Limb == 2 ^ 16
DefaultSeed == <<4660, 65518, 192, 0>>
CapMs == 150
DupOffsetMs == 1
\* floor(2^51 / 10^6) = JitterTinyHi * 2^21 + JitterTinyLo
JitterTinyHi == 1073
JitterTinyLo == 1555717

\* v evaluated once and handed to F.
Apply(F(_), v) == CHOOSE r \in {F(y) : y \in {v}} : TRUE

Pow2(k) == 2 ^ k

\* x << s and x >> s on a 64-bit word, 0 < s < 16, and x << 16.
Shl(x, s) ==
  << (x[1] * Pow2(s)) % Limb,
     ((x[2] * Pow2(s)) % Limb) + (x[1] \div Pow2(16 - s)),
     ((x[3] * Pow2(s)) % Limb) + (x[2] \div Pow2(16 - s)),
     ((x[4] * Pow2(s)) % Limb) + (x[3] \div Pow2(16 - s)) >>
Shr(x, s) ==
  << (x[1] \div Pow2(s)) + ((x[2] % Pow2(s)) * Pow2(16 - s)),
     (x[2] \div Pow2(s)) + ((x[3] % Pow2(s)) * Pow2(16 - s)),
     (x[3] \div Pow2(s)) + ((x[4] % Pow2(s)) * Pow2(16 - s)),
     x[4] \div Pow2(s) >>
Shl16(x) == <<0, x[1], x[2], x[3]>>
Xor64(a, b) == <<BitXor(a[1], b[1]), BitXor(a[2], b[2]), BitXor(a[3], b[3]), BitXor(a[4], b[4])>>

\* xorshift64: x ^= x << 13; x ^= x >> 7; x ^= x << 17.
XsA(x) == Xor64(x, Shl(x, 13))
XsB(x) == Xor64(x, Shr(x, 7))
XsC(x) == Xor64(x, Shl(Shl16(x), 1))
xorshift64(x) == Apply(XsC, Apply(XsB, Apply(XsA, x)))

\* frand01 of the output x is (x >> 11) / 2^53.  Quarter(x) is the integer
\* part of 4 * frand01, and TinyFraction(x) says that the fractional part
\* of 4 * frand01 is below 10^-6.
Quarter(x) == x[4] \div Pow2(14)
TinyFraction(x) ==
  /\ x[4] % Pow2(14) = 0
  /\ \/ x[3] < JitterTinyHi
     \/ /\ x[3] = JitterTinyHi
        /\ x[2] * 32 + x[1] \div Pow2(11) <= JitterTinyLo

\* Mutant of decide: the comparison admits equality.
DecideAtMost(pct, x) == Quarter(x) * 25 <= pct

\* decide(pct, rng) on the generator's output x: frand01 < pct / 100.
decide(pct, x) == Quarter(x) * 25 < pct

\* bb_channel_cfg_t.  rate_kbps is rate_mbps * 1000, and delay_jitter_ms is
\* 0 or JitterMs.
JitterMs == 2
ChanCfg(loss, dup, reorder, mean, jitter, kbps, seed) ==
  [loss_pct |-> loss, dup_pct |-> dup, reorder_pct |-> reorder, delay_mean_ms |-> mean,
   delay_jitter_ms |-> jitter, rate_kbps |-> kbps, seed |-> seed]

\* The latest call on a channel object, for the claims: what it was given,
\* what it returned and what it decided.
NoCall ==
  [op |-> "none", n |-> 0, ret |-> 0, dropped |-> FALSE, delay |-> 0, dup |-> FALSE,
   swapped |-> FALSE, sent |-> 0, bytes |-> 0, stop |-> "none", src |-> "none"]

\* A socket that is bound and has not learned its peer (main_server.c).
Listening(cfg) ==
  [phase |-> "listen", cfg |-> cfg, peer |-> "none", now |-> 0, token |-> 0,
   next_tx_ts |-> 0, q |-> <<>>, rng |-> <<0, 0, 0, 0>>,
   calls |-> <<>>, wire |-> <<>>, heard |-> <<>>, last |-> NoCall]

\* bb_channel_create: token is token_ns_per_byte in ms per byte.
bb_channel_create(peer, cfg, heard) ==
  [phase |-> "open", cfg |-> cfg, peer |-> peer, now |-> 0,
   token |-> IF cfg.rate_kbps > 0 THEN 8 \div cfg.rate_kbps ELSE 0,
   next_tx_ts |-> 0, q |-> <<>>,
   rng |-> IF cfg.seed = <<0, 0, 0, 0>> THEN DefaultSeed ELSE cfg.seed,
   calls |-> <<>>, wire |-> <<>>, heard |-> heard, last |-> NoCall]

\* jittered_delay_ns on the generator's output x, rounded up to the
\* millisecond at which a frame turns ready: max(0, base + (2f - 1) * jitter).
jittered_delay(cfg, x) ==
  IF cfg.delay_jitter_ms = 0 THEN cfg.delay_mean_ms
  ELSE LET whole == cfg.delay_mean_ms - JitterMs + Quarter(x)
           up == IF TinyFraction(x) THEN 0 ELSE 1
       IN IF whole + up < 0 THEN 0 ELSE whole + up

\* Mutant of enqueue_out: the copy misses the last byte.
EnqueueShort(q, buf, ready_ts, id) ==
  Append(q, [buf |-> SubSeq(buf, 1, Len(buf) - 1), ready_ts |-> ready_ts, id |-> id])

\* enqueue_out: a copy of the n bytes joins the tail.  id names the send
\* call the bytes came from.
enqueue_out(q, buf, ready_ts, id) ==
  Append(q, [buf |-> buf, ready_ts |-> ready_ts, id |-> id])

\* bb_channel_send up to the loss decision; w holds the object c, the
\* buffer and the clock reading t at entry.
SendLoss(w) ==
  LET x == xorshift64(w.c.rng)
  IN [w EXCEPT !.c.now = w.t, !.c.rng = x, !.c.calls = Append(@, w.buf),
               !.dropped = decide(w.c.cfg.loss_pct, x)]

\* The delay, the enqueue and the duplicate.
SendEnqueue(w) ==
  LET x1 == Apply(xorshift64, w.c.rng)
      x2 == Apply(xorshift64, x1)
      d == jittered_delay(w.c.cfg, x1)
      ready == w.c.now + d
      id == Len(w.c.calls)
      q1 == enqueue_out(w.c.q, w.buf, ready, id)
      dup == decide(w.c.cfg.dup_pct, x2)
  IN [w EXCEPT !.c.rng = x2, !.delay = d, !.dup = dup,
               !.c.q = IF dup THEN enqueue_out(q1, w.buf, ready + DupOffsetMs, id) ELSE q1]

\* Mutant of maybe_reorder: the head and the next are swapped whatever the
\* decision.
ReorderAlways(w) ==
  IF Len(w.c.q) < 2 THEN w
  ELSE LET x == Apply(xorshift64, w.c.rng)
           q == w.c.q
       IN [w EXCEPT !.c.rng = x, !.swapped = TRUE,
                    !.c.q = <<q[2], q[1]>> \o SubSeq(q, 3, Len(q))]

\* maybe_reorder: with two frames queued, a decision whether to swap the
\* head and the next.
maybe_reorder(w) ==
  IF Len(w.c.q) < 2 THEN w
  ELSE LET x == Apply(xorshift64, w.c.rng)
           q == w.c.q
       IN IF decide(w.c.cfg.reorder_pct, x)
          THEN [w EXCEPT !.c.rng = x, !.swapped = TRUE,
                         !.c.q = <<q[2], q[1]>> \o SubSeq(q, 3, Len(q))]
          ELSE [w EXCEPT !.c.rng = x]

\* The bounded wait: sleeps of at most 5 ms until the head is ready or
\* CapMs have been waited.
SendWait(w) ==
  IF w.c.q = <<>> \/ w.c.q[1].ready_ts <= w.c.now THEN w
  ELSE [w EXCEPT !.c.now = Min(w.c.q[1].ready_ts, w.c.now + CapMs)]

\* The drain loop.  sock names the sendto that fails in this call and how
\* (at = 0: none fails).  The record of a transmission keeps the frame's
\* ready_ts, the clock reading and the next_tx_ts the loop tested.
RECURSIVE Drain(_)
Drain(w) ==
  IF w.c.q = <<>> THEN w
  ELSE LET f == w.c.q[1]
           c == w.c
       IN IF f.ready_ts > c.now THEN w
          ELSE IF c.token # 0 /\ c.now < c.next_tx_ts THEN w
          ELSE LET nx == IF c.token # 0 THEN c.now + c.token * Len(f.buf) ELSE c.next_tx_ts
                   o == IF w.sent + 1 = w.sock.at THEN w.sock.kind ELSE "ok"
               IN IF o # "ok" THEN [w EXCEPT !.c.next_tx_ts = nx, !.stop = o]
                  ELSE Apply(Drain,
                         [w EXCEPT !.c.next_tx_ts = nx, !.c.q = Tail(@),
                                   !.c.wire = Append(@, [buf |-> f.buf, to |-> c.peer, id |-> f.id,
                                                         ready |-> f.ready_ts, at |-> c.now,
                                                         gate |-> c.next_tx_ts]),
                                   !.sent = @ + 1, !.bytes = @ + Len(f.buf)])

SendRest(w) == Apply(Drain, Apply(SendWait, Apply(maybe_reorder, Apply(SendEnqueue, w))))

\* Mutant of SendReturn: the number of frames transmitted is returned.
SendReturnFrames(w) ==
  IF w.dropped THEN Len(w.buf)
  ELSE IF w.stop = "error" THEN -1
  ELSE IF w.sent > 0 THEN w.sent ELSE Len(w.buf)

\* The value bb_channel_send returns: n at the loss decision, -1 at a
\* sendto error, else sent_total or n.
SendReturn(w) ==
  IF w.dropped THEN Len(w.buf)
  ELSE IF w.stop = "error" THEN -1
  ELSE IF w.bytes > 0 THEN w.bytes ELSE Len(w.buf)

\* bb_channel_send(ch, buf, n) called when the clock reads t.
ChannelSend(c, buf, t, sock) ==
  LET w0 == [c |-> c, buf |-> buf, t |-> t, sock |-> sock, dropped |-> FALSE, delay |-> 0,
             dup |-> FALSE, swapped |-> FALSE, sent |-> 0, bytes |-> 0, stop |-> "none"]
      w1 == Apply(SendLoss, w0)
      w == IF w1.dropped THEN w1 ELSE Apply(SendRest, w1)
  IN [w.c EXCEPT !.last = [op |-> "send", n |-> Len(buf), ret |-> SendReturn(w), dropped |-> w.dropped,
                           delay |-> w.delay, dup |-> w.dup, swapped |-> w.swapped,
                           sent |-> w.sent, bytes |-> w.bytes, stop |-> w.stop, src |-> "none"]]

\* bb_channel_recv: o is what select and recvfrom do, r the result of
\* select, n that of recvfrom and src the datagram's source.
ChannelRecv(c, o) ==
  IF o.r <= 0
  THEN [c EXCEPT !.last = [NoCall EXCEPT !.op = "recv", !.ret = o.r]]
  ELSE [c EXCEPT !.peer = IF o.n > 0 THEN o.src ELSE @,
                 !.last = [NoCall EXCEPT !.op = "recv", !.ret = o.n, !.src = o.src]]

\* One channel object: a client's, created with the server's address as its
\* peer, or a server's, created once the bound socket has heard a datagram.
\* The configurations: that of src/tests/test_channel.c; no impairment and
\* the default seed; every impairment at 50 %; and a delay beyond the
\* bounded wait with every frame duplicated and reordered.
MaxCalls == 3
MaxHeard == 2
Addrs == {"a", "b"}
ServerAddr == "srv"
ChanCfgs ==
  { ChanCfg(100, 0, 0, 0, 0, 0, <<1234, 0, 0, 0>>),
    ChanCfg(0, 0, 0, 0, 0, 0, <<0, 0, 0, 0>>),
    ChanCfg(50, 50, 50, 1, JitterMs, 8, <<42, 0, 0, 13>>),
    ChanCfg(0, 100, 100, 200, 0, 0, <<7, 0, 0, 0>>) }
ChanBufs == {<<7>>, <<8, 9>>}
ClockSteps == {0, 1, 60}
SockOutcomes ==
  {[at |-> 0, kind |-> "ok"]} \cup {[at |-> k, kind |-> x] : k \in 1..2, x \in {"block", "error"}}
RecvOutcomes ==
  {[r |-> 0, n |-> 0, src |-> "none"], [r |-> -1, n |-> 0, src |-> "none"]}
    \cup {[r |-> 1, n |-> n, src |-> a] : n \in {-1, 0, 1}, a \in Addrs}

\* A client's channel object, created with the server's address as peer.
ChanInit ==
  /\ engine = "none"
  /\ wnd = DefaultWnd
  /\ mss = DefaultMss
  /\ init_seq = EchoInitSeq
  /\ lossy = FALSE
  /\ trace = FALSE
  /\ EngineState([e \in EP |-> {}])
  /\ tmr = NoTimer
  /\ \E cfg \in ChanCfgs : chan = <<bb_channel_create(ServerAddr, cfg, <<>>)>>

ChanSendAt(r, buf, dt, sock) ==
  /\ chan[r].phase = "open"
  /\ Len(chan[r].calls) < MaxCalls
  /\ chan' = [chan EXCEPT ![r] = ChannelSend(@, buf, @.now + dt, sock)]
  /\ UNCHANGED <<engineVars, call, tmr>>

ChanSendCall ==
  \E buf \in ChanBufs, dt \in ClockSteps, sock \in SockOutcomes : ChanSendAt(1, buf, dt, sock)

ChanSpec == ChanInit /\ [][ChanSendCall]_vars

\* A server's channel object: the bound socket hears datagrams until one
\* is not empty, the channel is created, and the session sends and
\* receives.  Frames wait in the queue for their delay.
PeerCfg == ChanCfg(0, 0, 0, 200, 0, 0, <<7, 0, 0, 0>>)

PeerInit ==
  /\ engine = "none"
  /\ wnd = DefaultWnd
  /\ mss = DefaultMss
  /\ init_seq = EchoInitSeq
  /\ lossy = FALSE
  /\ trace = FALSE
  /\ EngineState([e \in EP |-> {}])
  /\ tmr = NoTimer
  /\ chan = <<Listening(PeerCfg)>>

\* The server's recvfrom loop before bb_channel_create: a datagram of n
\* bytes from src arrives.
ChanHello ==
  /\ chan[1].phase = "listen"
  /\ Len(chan[1].heard) < MaxHeard
  /\ \E src \in Addrs, n \in {0, 1} :
       LET heard == Append(chan[1].heard, [src |-> src, n |-> n])
       IN chan' = IF n > 0
                  THEN <<bb_channel_create(src, chan[1].cfg, heard)>>
                  ELSE <<[chan[1] EXCEPT !.heard = heard]>>
  /\ UNCHANGED <<engineVars, call, tmr>>

PeerSend ==
  \E dt \in ClockSteps, k \in {0, 1} :
    ChanSendAt(1, <<7>>, dt, [at |-> k, kind |-> "block"])

ChanRecvCall ==
  /\ chan[1].phase = "open"
  /\ \E o \in RecvOutcomes : chan' = [chan EXCEPT ![1] = ChannelRecv(@, o)]
  /\ UNCHANGED <<engineVars, call, tmr>>

PeerNext == ChanHello \/ PeerSend \/ ChanRecvCall

PeerSpec == PeerInit /\ [][PeerNext]_vars

\* Two runs of one program: two channel objects created with the same
\* configuration and seed are given the same buffers in the same order, and
\* each run reads its own clock.  Every sendto succeeds.
PairCalls == 4
PairCfg == ChanCfg(50, 50, 0, 0, 0, 8, <<2, 0, 0, 20>>)
PairSteps == {0, 60}

PairInit ==
  /\ engine = "none"
  /\ wnd = DefaultWnd
  /\ mss = DefaultMss
  /\ init_seq = EchoInitSeq
  /\ lossy = FALSE
  /\ trace = FALSE
  /\ EngineState([e \in EP |-> {}])
  /\ tmr = NoTimer
  /\ chan = <<bb_channel_create(ServerAddr, PairCfg, <<>>),
              bb_channel_create(ServerAddr, PairCfg, <<>>)>>

PairSend ==
  /\ Len(chan[1].calls) < PairCalls
  /\ \E buf \in ChanBufs, dt1 \in PairSteps, dt2 \in PairSteps :
       chan' = <<ChannelSend(chan[1], buf, chan[1].now + dt1, [at |-> 0, kind |-> "ok"]),
                 ChannelSend(chan[2], buf, chan[2].now + dt2, [at |-> 0, kind |-> "ok"])>>
  /\ UNCHANGED <<engineVars, call, tmr>>

PairSpec == PairInit /\ [][PairSend]_vars

\* --------------------------------------------------- GBN window and send
\* A GBN endpoint whose window holds two segments of two bytes sends
\* messages of up to three bytes over a channel that accepts every
\* datagram; both endpoints call recv.
WinLens == 0..(MaxLen + 1)

GbnWinInit ==
  /\ engine = "gbn"
  /\ wnd = bb_proto_gbn_create_wnd(2)
  /\ mss = bb_proto_gbn_create_mss(2)
  /\ init_seq = SeqMod - 1
  /\ lossy = FALSE
  /\ trace = TRUE
  /\ EngineInit

GbnWinSend == \E len \in WinLens : GbnSendStep(1, len, KeptSets)

GbnWinNext == GbnWinSend \/ \E e \in EP : GbnLossRecv(e)

GbnWinSpec == GbnWinInit /\ [][GbnWinNext]_vars

\* ------------------------------------------------------------------ timer
\* bb_timer_t with the monotonic clock it reads (now, in ns).  op, at and ms
\* record the latest arm or disarm, the clock reading of the arm and its
\* timeout.
NsPerMs == 1000000
MaxTicks == 5
TimeoutsMs == {0, 1, 2}
TickNs == {1, NsPerMs - 1, NsPerMs}

bb_timer_arm(t, timeout_ms) ==
  [t EXCEPT !.deadline_ns = t.now + timeout_ms * NsPerMs, !.armed = TRUE,
            !.op = "arm", !.at = t.now, !.ms = timeout_ms]

bb_timer_disarm(t) == [t EXCEPT !.armed = FALSE, !.op = "disarm"]

\* Mutant of bb_timer_expired: the deadline itself is not yet expiry.
TimerExpiredAfter(t) == t.armed /\ t.now > t.deadline_ns

bb_timer_expired(t) == t.armed /\ t.now >= t.deadline_ns

bb_timer_remaining_ms(t) ==
  IF ~t.armed THEN 0
  ELSE IF t.now >= t.deadline_ns THEN 0 ELSE (t.deadline_ns - t.now) \div NsPerMs

TimerInit ==
  /\ engine = "none"
  /\ wnd = DefaultWnd
  /\ mss = DefaultMss
  /\ init_seq = EchoInitSeq
  /\ lossy = FALSE
  /\ trace = FALSE
  /\ EngineState([e \in EP |-> {}])
  /\ chan = NoChan
  /\ tmr = NoTimer

TimerArm ==
  /\ \E ms \in TimeoutsMs : tmr' = bb_timer_arm(tmr, ms)
  /\ UNCHANGED <<engineVars, call, chan>>

TimerDisarm ==
  /\ tmr' = bb_timer_disarm(tmr)
  /\ UNCHANGED <<engineVars, call, chan>>

\* The monotonic clock advances.
TimerTick ==
  /\ tmr.ticks < MaxTicks
  /\ \E d \in TickNs : tmr' = [tmr EXCEPT !.now = @ + d, !.ticks = @ + 1]
  /\ UNCHANGED <<engineVars, call, chan>>

TimerNext == TimerArm \/ TimerDisarm \/ TimerTick

TimerSpec == TimerInit /\ [][TimerNext]_vars

\* ---------------------------------------------------------- channel claims

\* The datagrams a step put on the wire, and their bytes.
RECURSIVE PutBytes(_)
PutBytes(ws) == IF ws = <<>> THEN 0 ELSE Len(Head(ws).buf) + PutBytes(Tail(ws))

ChannelLoss ==
  [][LET c == chan'[1]
         l == c.last
     IN /\ l.dropped =>
             /\ c.q = chan[1].q
             /\ c.wire = chan[1].wire
             /\ l.ret = l.n
             /\ l.ret = Len(c.calls[Len(c.calls)])
        /\ c.cfg.loss_pct = 100 => l.dropped /\ c.wire = <<>>
        /\ c.cfg.loss_pct = 0 => ~l.dropped]_vars

\* A dropped call on a channel that holds a queued frame.
ChannelDroppedCall ==
  /\ chan[1].last.dropped
  /\ chan[1].last.ret = chan[1].last.n
  /\ chan[1].q # <<>>

\* C23: every datagram the channel transmits equals, byte for byte and in
\* length, the buffer of an earlier send call, and the bytes of one send
\* call are transmitted at most twice.
ChannelOpacity ==
  LET c == chan[1]
  IN /\ \A k \in 1..Len(c.wire) :
          /\ c.wire[k].id \in 1..Len(c.calls)
          /\ c.wire[k].buf = c.calls[c.wire[k].id]
          /\ Len(c.wire[k].buf) = Len(c.calls[c.wire[k].id])
     /\ \A i \in 1..Len(c.calls) :
          Cardinality({k \in 1..Len(c.wire) : c.wire[k].id = i}) <= 2

\* The duplicate of a later call was transmitted ahead of an earlier
\* call's frame, and some call's bytes went out twice.
ChannelDuplicateSent ==
  LET c == chan[1]
  IN /\ \E k \in 1..Len(c.wire), j \in 1..Len(c.wire) :
          k < j /\ c.wire[k].id = c.wire[j].id
     /\ \E k \in 1..Len(c.wire), j \in 1..Len(c.wire) :
          k < j /\ c.wire[k].id > c.wire[j].id /\ c.wire[k].buf # c.wire[j].buf

\* C24: two channels with the same configuration and seed that are given
\* the same sequence of send calls make the same drop, delay, duplicate and
\* reorder decision at every call, whatever the clock times of the calls.
ChannelReproducible ==
  Len(chan) = 2 =>
    /\ chan[1].calls = chan[2].calls
    /\ chan[1].last.dropped = chan[2].last.dropped
    /\ chan[1].last.delay = chan[2].last.delay
    /\ chan[1].last.dup = chan[2].last.dup
    /\ chan[1].last.swapped = chan[2].last.swapped

\* A bb_channel_recv step: the peer is the datagram's source when the call
\* returned n > 0 and is unchanged when it returned <= 0.
PeerAfterRecv ==
  chan'[1].last.op = "recv" /\ chan[1].phase = "open" =>
    IF chan'[1].last.ret > 0
    THEN chan'[1].peer = chan'[1].last.src
    ELSE chan'[1].peer = chan[1].peer

\* A bb_channel_send step: what it transmits, frames queued by earlier
\* calls included, goes to the peer the channel held at the call.
PeerOfTransmissions ==
  chan'[1].last.op = "send" /\ chan[1].phase = "open" =>
    /\ chan'[1].peer = chan[1].peer
    /\ \A k \in (Len(chan[1].wire) + 1)..Len(chan'[1].wire) :
         chan'[1].wire[k].to = chan[1].peer

\* The session's channel is created with the source of the first datagram
\* the bound socket received.
PeerOfSession ==
  chan[1].phase = "listen" /\ chan'[1].phase = "open" =>
    chan'[1].peer = chan'[1].heard[1].src

\* The clauses of C25 that concern the channel object.
PeerFollowsRecv == [][PeerAfterRecv /\ PeerOfTransmissions]_vars

\* C25: after bb_channel_recv returns n > 0 the peer is that datagram's
\* source and every later transmission, frames queued before the receive
\* included, goes there; a recv that returns <= 0 leaves the peer
\* unchanged; a server session's initial peer is the source of the first
\* datagram it received.
PeerLearning == [][PeerAfterRecv /\ PeerOfTransmissions /\ PeerOfSession]_vars

\* A frame queued before a receive from another address was transmitted to
\* that address.
PeerQueuedRedirected ==
  /\ chan[1].phase = "open"
  /\ chan[1].wire # <<>>
  /\ chan[1].wire[1].to # chan[1].heard[Len(chan[1].heard)].src
  /\ chan[1].wire[1].to = chan[1].peer

\* C26: after arm(ms) at time t, expired() is false before t + ms and true
\* from t + ms on, until the timer is disarmed or armed again; after
\* disarm(), expired() is false and remaining_ms() is 0; arming an armed
\* timer replaces its deadline; remaining_ms() is 0 whenever expired().
TimerSemantics ==
  /\ tmr.op = "arm" => (bb_timer_expired(tmr) <=> tmr.now >= tmr.at + tmr.ms * NsPerMs)
  /\ tmr.op = "disarm" => ~bb_timer_expired(tmr) /\ bb_timer_remaining_ms(tmr) = 0
  /\ bb_timer_expired(tmr) => bb_timer_remaining_ms(tmr) = 0

\* A timer armed again while armed, read at the instant of its new
\* deadline, past the deadline of the first arm.
TimerAtDeadline ==
  /\ tmr.op = "arm"
  /\ tmr.ms > 0
  /\ tmr.at > 0
  /\ tmr.now = tmr.at + tmr.ms * NsPerMs
  /\ bb_timer_expired(tmr)

\* ------------------------------------------------- GBN single-call claims
\* The pure ACK frames among the datagrams a call offered to the channel.
PureAcks(out) == SelectSeq(out, LAMBDA f : f.flags = BB_FLAG_ACK)

\* The DATA frames among the datagrams a call offered to the channel.
DataFrames(out) == SelectSeq(out, LAMBDA f : f.flags = BB_FLAG_DATA)

\* What a GBN recv at e that parsed the frame call'.h did with it.
GbnRecvOutcome(e) ==
  LET h == call'.h
      acks == PureAcks(call'.out)
  IN IF h.flags = BB_FLAG_DATA
     THEN IF h.seq = rcv_nxt[e]
          THEN /\ call'.ret > 0
               /\ rets'[e] = Append(rets[e], SubSeq(h.pl, 1, call'.ret))
               /\ rcv_nxt'[e] = (rcv_nxt[e] + 1) % SeqMod
               /\ Len(acks) = 1
               /\ acks[1].ack = rcv_nxt'[e] /\ acks[1].pl = <<>>
          ELSE /\ call'.ret = 0
               /\ rets'[e] = rets[e]
               /\ rcv_nxt'[e] = rcv_nxt[e]
               /\ Len(acks) = 1
               /\ acks[1].ack = rcv_nxt[e] /\ acks[1].pl = <<>>
     ELSE /\ rcv_nxt'[e] = rcv_nxt[e]
          /\ acks = <<>>

\* C27: a valid DATA frame is delivered by GBN recv iff its seq equals
\* rcv_nxt, and then rcv_nxt advances by 1 and one ACK carrying the new
\* rcv_nxt is sent; for any other seq nothing is delivered, rcv_nxt is
\* unchanged, recv returns 0 and one pure ACK carrying rcv_nxt is sent; a
\* frame without the DATA flag never changes rcv_nxt and triggers no ACK.
GbnReceivePath ==
  [][\A e \in EP :
       (call'.op = "recv" /\ call'.e = e /\ call'.h \notin {Corrupt, Timeout})
       => GbnRecvOutcome(e)]_vars

\* A recv met a duplicate of a DATA frame behind rcv_nxt and answered it
\* with one ACK.
GbnDuplicateAnswered ==
  /\ call.op = "recv"
  /\ call.h.flags = BB_FLAG_DATA
  /\ call.h \notin {Corrupt, Timeout}
  /\ seq_cmp(call.h.seq, rcv_nxt[call.e]) < 0
  /\ call.h.seq # Stray.seq
  /\ call.ret = 0
  /\ Len(PureAcks(call.out)) = 1

\* What the ACK handling of a GBN recv at e did when the frame's ack does
\* not advance snd_una: the counters, and the timer apart from its deadline.
GbnStaleAckCounters(e) ==
  /\ snd_una'[e] = snd_una[e]
  /\ snd_nxt'[e] = snd_nxt[e]
  /\ call'.timer = "stopped" => ~timer_running'[e] /\ snd_una[e] = snd_nxt[e]

\* The counters are left alone by an ack that does not advance snd_una.
GbnStaleAckKeepsCounters ==
  [][\A e \in EP :
       (call'.op = "recv" /\ call'.e = e /\ call'.h \notin {Corrupt, Timeout}
          /\ seq_cmp(call'.h.ack, snd_una[e]) <= 0)
       => GbnStaleAckCounters(e)]_vars

\* C28: when GBN recv processes a frame whose ack does not advance snd_una
\* (signed ack - snd_una <= 0), the ACK handling leaves snd_una, snd_nxt and
\* the retransmission timer, its armed flag and its deadline, unchanged.
GbnDuplicateAckIgnored ==
  [][\A e \in EP :
       (call'.op = "recv" /\ call'.e = e /\ call'.h \notin {Corrupt, Timeout}
          /\ seq_cmp(call'.h.ack, snd_una[e]) <= 0)
       => /\ GbnStaleAckCounters(e)
          /\ call'.timer # "armed"
          /\ call'.timer = "stopped" => ~timer_running[e]]_vars

\* The sequences una, una + 1, ..., nxt - 1 in ascending order.
WindowSeqs(una, nxt) == [i \in 1..((nxt - una) % SeqMod) |-> (una + i - 1) % SeqMod]

SeqsOf(frames) == [i \in DOMAIN frames |-> frames[i].seq]

\* What a GBN recv at e offered and left behind, given what bb_channel_recv
\* returned (h) and whether the clock had passed the deadline at its first
\* and second timer check (exp1, exp2).  A recv that times out checks the
\* timer a second time and may retransmit the window again.
GbnTimeoutOutcome(e, h, exp1, exp2) ==
  LET una == snd_una[e]
      nxt == snd_nxt[e]
      W == WindowSeqs(una, nxt)
      open == seq_cmp(nxt, una) > 0
      data == SeqsOf(DataFrames(call'.out))
      again == h = Timeout /\ exp2
  IN IF open /\ timer_running[e] /\ (exp1 \/ again)
     THEN /\ data = W \/ (exp1 /\ again /\ data = W \o W)
          /\ snd_nxt'[e] = nxt
          /\ h \in {Corrupt, Timeout} => snd_una'[e] = una /\ timer_running'[e]
     ELSE data = <<>>

\* C29: when GBN recv runs with snd_una < snd_nxt and an expired timer, it
\* offers exactly one DATA frame for every sequence in [snd_una, snd_nxt),
\* in ascending order, re-arms the timer and leaves snd_una and snd_nxt
\* unchanged; it retransmits nothing when the timer has not expired or the
\* window is empty.
GbnTimeoutRetransmitsWindow ==
  [][\A e \in EP : \A cap \in Caps, h \in bb_channel_recv(e), exp1 \in BOOLEAN, exp2 \in BOOLEAN :
       GbnRecvStep(e, cap, h, TRUE, exp1, exp2, KeptSets)
       => GbnTimeoutOutcome(e, h, exp1, exp2)]_vars

\* The same for the endpoints that have called send at most once.
GbnTimeoutRetransmitsMessage ==
  [][\A e \in EP : \A cap \in Caps, h \in bb_channel_recv(e), exp1 \in BOOLEAN, exp2 \in BOOLEAN :
       (Len(msgs[e]) <= 1 /\ GbnRecvStep(e, cap, h, TRUE, exp1, exp2, KeptSets))
       => GbnTimeoutOutcome(e, h, exp1, exp2)]_vars

\* ceil(a / b)
CeilDiv(a, b) == (a + b - 1) \div b

GbnSendOutcome(e) ==
  (engine = "gbn" /\ call'.op = "send" /\ call'.e = e) =>
    LET data == msgs'[e][Len(msgs'[e])]
        k == Len(call'.out)
        more == k * mss < Len(data) /\ ~GbnWindowClosed(snd_una[e], snd_nxt'[e])
        packfails == more /\ GbnBufCap < HdrSize + Min(Len(data) - k * mss, mss)
    IN /\ packfails <=> call'.fail = "pack"
       /\ call'.fail = "channel" => more
       /\ call'.ret = IF call'.fail = "none" THEN 0 ELSE -1
       /\ snd_nxt'[e] = (snd_nxt[e] + k) % SeqMod
       /\ snd_una'[e] = snd_una[e]
       /\ \A i \in 1..k : /\ call'.out[i].seq = (snd_nxt[e] + i - 1) % SeqMod
                          /\ call'.out[i].seq \in InFlight(e)'

\* The segments the SR send in progress at e has sent so far: every chunk
\* before the last is mss bytes long.
SentInCall(e) == {(snd_nxt[e] - j) % SeqMod : j \in 1..(soff[e] \div mss)}

\* What a pass of the SR send loop must have done: it fails exactly when
\* the window has room and the pack of the next segment or the channel
\* failed; a failing pass ends the call with -1, leaves snd_nxt alone,
\* occupies no sender slot and arms no timer; any other pass goes on with
\* the call; and a segment leaves [snd_una, snd_nxt) in a pass only when
\* the datagram the pass received acknowledged it.
SrPassOutcome(e) ==
  (engine = "sr" /\ call'.op = "send_pass" /\ call'.e = e) =>
    LET chunk == Min(Len(sdata[e]) - soff[e], mss)
        full == ((snd_nxt[e] - snd_una'[e]) % SeqMod) >= wnd
        packfails == ~full /\ SrBufCap < HdrSize + chunk
    IN /\ packfails <=> call'.fail = "pack"
       /\ call'.fail = "channel" => ~full
       /\ call'.fail # "none" =>
            /\ call'.ret = -1 /\ sret'[e] = -1 /\ pc'[e] = "idle"
            /\ snd_nxt'[e] = snd_nxt[e]
            /\ DOMAIN tx'[e] \subseteq DOMAIN tx[e]
            /\ txtimers'[e] \subseteq txtimers[e]
       /\ call'.fail = "none" => call'.ret = 0 /\ pc'[e] # "idle"
       /\ \A q \in InFlight(e) :
            \/ q \in InFlight(e)'
            \/ call'.h \notin {Corrupt, Timeout} /\ seq_cmp(q, call'.h.ack) < 0

\* The only other way out of an SR send is the end of the drain loop, with 0.
SrReturnOutcome(e) ==
  (engine = "sr" /\ pc[e] # "idle" /\ pc'[e] = "idle") =>
    \/ call'.op = "send_pass" /\ call'.fail # "none" /\ sret'[e] = -1
    \/ call'.op = "send_return" /\ sret'[e] = 0

\* When an SR send fails, every segment it sent earlier is in
\* [snd_una, snd_nxt).
SrEarlierOutstanding(e) ==
  (engine = "sr" /\ call'.op = "send_pass" /\ call'.e = e /\ call'.fail # "none") =>
    \A q \in SentInCall(e) : q \in InFlight(e)'

\* C19 as stated: in both engines, when packing the segment at snd_nxt fails
\* or the channel returns a negative value for it, send returns -1 at that
\* point, snd_nxt is not advanced for that segment, in SR no sender slot
\* becomes occupied for it, and the segments sent earlier in the same call
\* stay outstanding in [snd_una, snd_nxt); send returns 0 in every other
\* case.
SendFailureOutstanding ==
  [][\A e \in EP : /\ GbnSendOutcome(e) /\ SrPassOutcome(e) /\ SrReturnOutcome(e)
                   /\ SrEarlierOutstanding(e)]_vars

\* C19 amended: the same, except that in SR a segment sent earlier in the
\* call may have left [snd_una, snd_nxt) because a datagram polled by the
\* send loop acknowledged it.
SendFailure ==
  [][\A e \in EP : GbnSendOutcome(e) /\ SrPassOutcome(e) /\ SrReturnOutcome(e)]_vars

\* Witness of C19: an SR send gave up on its second segment after the
\* channel refused it, the first still outstanding in its slot.
SrSecondSegmentRefused ==
  /\ engine = "sr" /\ call.op = "send_pass" /\ call.fail = "channel" /\ call.ret = -1
  /\ pc[1] = "idle" /\ sret[1] = -1 /\ soff[1] = mss
  /\ Outstanding(1) = 1 /\ Cardinality(DOMAIN tx[1]) = 1

\* C20: whenever SR send returns 0, snd_una = snd_nxt, every sender slot is
\* empty and every slot timer is disarmed, and the peer has received in
\* order every segment sent so far (its rcv_nxt, the value its cumulative
\* acks carry, has reached snd_nxt).
SrSendPostcondition ==
  \A e \in EP :
    (call.op = "send_return" /\ call.e = e) =>
      /\ sret[e] = 0 /\ pc[e] = "idle"
      /\ snd_una[e] = snd_nxt[e]
      /\ DOMAIN tx[e] = {}
      /\ txtimers[e] = {}
      /\ rcv_nxt[Peer(e)] = snd_nxt[e]

\* Witness of C20: the send of a two-segment message has returned 0, both
\* segments acknowledged.
SrSendReturned ==
  /\ call.op = "send_return" /\ call.e = 1 /\ sret[1] = 0
  /\ Len(msgs[1]) = 1 /\ Len(msgs[1][1]) = 2 * mss
  /\ snd_nxt[1] = (init_seq + 2) % SeqMod

\* ------------------------------------------------- SR retransmission
\* C31: SR retransmits a sequence q only when q is in [snd_una, snd_nxt),
\* its slot is in use and that slot's own timer has expired (so a slot
\* whose timer has not expired is not retransmitted); the pass re-arms
\* timers of retransmitted slots only, so the armed timers stay those of
\* the slots in use; and the payload of every retransmission of q is the
\* payload of the first transmission of q.
SrSelectiveRetx ==
  [][\A e \in EP :
       (engine = "sr" /\ call'.op \in {"send_pass", "drain_pass"} /\ call'.e = e) =>
         \A p \in retx'[e] :
           /\ \E k \in 1..((snd_nxt[e] - snd_una'[e]) % SeqMod) :
                p[1] = (snd_una'[e] + k - 1) % SeqMod
           /\ wrap_idx(p[1], wnd) \in DOMAIN tx[e]
           /\ wrap_idx(p[1], wnd) \in txtimers[e] \cap call'.timer
           /\ p \in origTx[e]]_vars

\* C32: SR slot indexing is collision-free for every window in 1..256 and
\* every position of the window in the sequence space, the wrap included:
\* two distinct sequences in [snd_una, snd_nxt) map to distinct sender
\* slots, two distinct sequences in [rcv_nxt, rcv_nxt + wnd) map to distinct
\* receiver slots, and a pass that stores a new segment puts it in a slot
\* that no segment still in flight occupies.
SrSlotsCollisionFree ==
  /\ [](\A e \in EP :
         /\ wnd \in 1..BB_MAX_WND
         /\ \A q1, q2 \in InFlight(e) :
              q1 # q2 => wrap_idx(q1, wnd) # wrap_idx(q2, wnd)
         /\ \A k1, k2 \in 0..(wnd - 1) :
              k1 # k2 => wrap_idx((rcv_nxt[e] + k1) % SeqMod, wnd)
                         # wrap_idx((rcv_nxt[e] + k2) % SeqMod, wnd))
  /\ [][\A e \in EP :
         (call'.op = "send_pass" /\ call'.e = e /\ snd_nxt'[e] # snd_nxt[e]) =>
           \A q \in InFlight(e)' \ {snd_nxt[e]} :
             wrap_idx(q, wnd) # wrap_idx(snd_nxt[e], wnd)]_vars

\* ------------------------------------------------- the channel's drain
\* The frames a step transmitted, as they were queued.
Transmitted(c0, c) ==
  [k \in 1..(Len(c.wire) - Len(c0.wire)) |->
     LET t == c.wire[Len(c0.wire) + k] IN [buf |-> t.buf, ready_ts |-> t.ready, id |-> t.id]]

\* The queue with its first two frames exchanged.
HeadSwapped(q) == IF Len(q) < 2 THEN q ELSE <<q[2], q[1]>> \o SubSeq(q, 3, Len(q))

\* C33: the channel transmits a frame only when it is the head of the
\* queue (the frames a call transmits, followed by those it leaves queued,
\* are the queue it drained), its ready_at <= now, and rate limiting is
\* disabled or now >= next_tx_at; with rate limiting enabled, next_tx_at
\* becomes now + ns_per_byte * len in a call that transmits a frame of
\* length len and is changed by no call that transmits nothing.
ChannelDrainGating ==
  [][LET c0 == chan[1]
         c == chan'[1]
         put == Transmitted(c0, c)
         drained == put \o c.q
     IN (c.last.op = "send") =>
          /\ SubSeq(IF c.last.swapped THEN HeadSwapped(drained) ELSE drained, 1, Len(c0.q)) = c0.q
          /\ \A k \in (Len(c0.wire) + 1)..Len(c.wire) :
               /\ c.wire[k].ready <= c.wire[k].at
               /\ c.token = 0 \/ c.wire[k].at >= c.wire[k].gate
          /\ c.token # 0 =>
               IF put # <<>>
               THEN c.next_tx_ts = c.now + c.token * Len(put[Len(put)].buf)
               ELSE c.next_tx_ts = c0.next_tx_ts]_vars

\* ------------------------------------------------- two SR senders
\* An SR session over the lossy channel in which each endpoint sends one
\* message and calls recv while it is not inside send (the order and the
\* reply of main_client.c and main_server.c), away from the wrap of the
\* sequence space.
SrDuplexInit ==
  /\ engine = "sr"
  /\ wnd = bb_proto_sr_create_wnd(3)
  /\ mss = bb_proto_sr_create_mss(1)
  /\ init_seq = 1
  /\ lossy = TRUE
  /\ trace = FALSE
  /\ EngineInit

SrDuplexSendCall(e) == msgs[e] = <<>> /\ SrSendCall(e)

SrDuplexNext ==
  \E e \in EP :
    SrDuplexSendCall(e) \/ SrSendIter(e) \/ SrDrainIter(e) \/ SrSendReturn(e) \/ SrRecv(e)

\* Both send loops keep running, time passes, an endpoint outside send
\* keeps calling recv, retransmissions are not lost forever, and a datagram
\* the channel has queued, DATA or ACK, is handed over.
SrDuplex ==
  /\ SrDuplexInit /\ [][SrDuplexNext]_vars
  /\ \A e \in EP :
       /\ WF_vars(SrSendIter(e)) /\ WF_vars(SrSendReturn(e))
       /\ WF_vars(SrPassExpired(e))
       /\ \A q \in LiveSeqs :
            /\ WF_vars(SrRecvOf(e, DataOf(e, q)))
            /\ WF_vars(SrPassOf(e, AcksOf(e, q)))
            /\ WF_vars(SrPassOf(e, DataOf(e, q)))

\* Both endpoints are inside send and at least one has unacknowledged
\* segments.
BothSending ==
  /\ pc[1] # "idle" /\ pc[2] # "idle"
  /\ Outstanding(1) > 0 \/ Outstanding(2) > 0

\* C34: when both endpoints of an SR session are inside send at the same
\* time, each with unacknowledged segments or one still retransmitting a
\* segment whose ACK was lost, both send calls eventually return.
SrNoSendDeadlock ==
  \A e \in EP : BothSending ~> (pc[e] = "idle")

\* ------------------------------------------------- datagrams and the peer
\* One endpoint of a session over its channel object: the engine's recv
\* reads a datagram through bb_channel_recv and hands it to bb_wire_parse,
\* and the engine's frames leave through bb_channel_send.  The datagrams:
\* a pure ACK as the peer packs it, the same bytes with a wrong magic or a
\* damaged checksum field, and a datagram shorter than a header.
SessionCfg == ChanCfg(0, 0, 0, 0, 0, 0, <<0, 0, 0, 0>>)
SessionBuild == "fletcher32"
Intruder == "x"
GoodDatagram ==
  bb_wire_pack(SessionBuild, GbnBufCap, BB_FLAG_ACK, <<0, 0, 0, 0>>, <<2, 1, 0, 0>>, <<>>)
SessionDatagrams ==
  { GoodDatagram,
    [GoodDatagram EXCEPT ![1] = (@ + 1) % 256],
    [GoodDatagram EXCEPT ![15] = (@ + 1) % 256],
    <<1>> }

SessionInit ==
  /\ engine = "none"
  /\ wnd = DefaultWnd
  /\ mss = DefaultMss
  /\ init_seq = EchoInitSeq
  /\ lossy = FALSE
  /\ trace = TRUE
  /\ EngineState([e \in EP |-> {}])
  /\ tmr = NoTimer
  /\ chan = <<bb_channel_create(ServerAddr, SessionCfg, <<>>)>>

\* The head of bb_proto_recv in both engines: bb_channel_recv, and
\* bb_wire_parse of what it returned; a datagram that fails validation
\* makes recv return 0.
ProtoRecvDatagram ==
  /\ Len(chan[1].heard) < MaxHeard
  /\ \E src \in {ServerAddr, Intruder}, buf \in SessionDatagrams :
       LET c == ChannelRecv(chan[1], [r |-> 1, n |-> Len(buf), src |-> src])
       IN /\ chan' = <<[c EXCEPT !.heard = Append(@, [src |-> src, n |-> Len(buf)])]>>
          /\ call' = [call EXCEPT !.op = "recv", !.out = buf, !.ret = 0,
                                   !.h = bb_wire_parse(SessionBuild, buf)]
  /\ UNCHANGED <<engineVars, tmr>>

\* The engine sends a frame.
SessionSend ==
  /\ \E buf \in ChanBufs, dt \in {0, 1} :
       ChanSendAt(1, buf, dt, [at |-> 0, kind |-> "ok"])

SessionNext == ProtoRecvDatagram \/ SessionSend

SessionSpec == SessionInit /\ [][SessionNext]_vars

\* C35: when a datagram received through the channel fails frame
\* validation in the engine, the peer address the channel sends to is the
\* same as before that datagram was received, and every frame the
\* channel transmits goes to the peer address it held before the call.
RejectedKeepsPeer ==
  [][/\ (chan'[1].last.op = "recv" /\ ~call'.h.ok) => chan'[1].peer = chan[1].peer
     /\ \A k \in (Len(chan[1].wire) + 1)..Len(chan'[1].wire) :
          chan'[1].wire[k].to = chan[1].peer]_vars

\* ------------------------------------------------- the queue's order
\* A channel that never reorders (reorder_pct = 0): jittered delays, with
\* and without duplicates and a rate limit, over a socket whose sendto may
\* would-block, so that frames with a later and an earlier ready_ts wait
\* behind one head.
FifoCalls == 4
FifoCfgs ==
  { ChanCfg(0, 50, 0, JitterMs, JitterMs, 8, <<42, 0, 0, 13>>),
    ChanCfg(0, 0, 0, JitterMs, JitterMs, 0, <<7, 0, 0, 0>>),
    ChanCfg(0, 100, 0, 200, 0, 0, <<2, 0, 0, 20>>) }

FifoInit ==
  /\ engine = "none"
  /\ wnd = DefaultWnd
  /\ mss = DefaultMss
  /\ init_seq = EchoInitSeq
  /\ lossy = FALSE
  /\ trace = FALSE
  /\ EngineState([e \in EP |-> {}])
  /\ tmr = NoTimer
  /\ \E cfg \in FifoCfgs : chan = <<bb_channel_create(ServerAddr, cfg, <<>>)>>

FifoSend ==
  /\ Len(chan[1].calls) < FifoCalls
  /\ \E buf \in ChanBufs, dt \in {0, 1}, k \in {0, 1} :
       chan' = <<ChannelSend(chan[1], buf, chan[1].now + dt, [at |-> k, kind |-> "block"])>>
  /\ UNCHANGED <<engineVars, call, tmr>>

FifoSpec == FifoInit /\ [][FifoSend]_vars

\* The frames transmitted so far followed by the frames queued, each named
\* by its send call and its ready_ts.
FrameOrder(c) ==
  [k \in 1..Len(c.wire) |-> [id |-> c.wire[k].id, ready |-> c.wire[k].ready]]
    \o [k \in 1..Len(c.q) |-> [id |-> c.q[k].id, ready |-> c.q[k].ready_ts]]

\* f was enqueued before g: by an earlier send call, or as the original of
\* which g is the duplicate.
EnqueuedBefore(f, g) == f.id < g.id \/ (f.id = g.id /\ f.ready + DupOffsetMs = g.ready)

\* C36: with reorder_pct = 0 the channel transmits frames in exactly the
\* order in which they were enqueued, whatever the delay, jitter,
\* duplication and rate limit: no frame is transmitted before a frame
\* enqueued earlier, even when its ready_at is the earlier one.
ChannelFifo ==
  LET c == chan[1]
      o == FrameOrder(c)
  IN c.cfg.reorder_pct = 0 =>
       \A k \in 1..Len(o), j \in 1..Len(o) : k < j => EnqueuedBefore(o[k], o[j])

\* Witness of C36: a frame was transmitted after a frame enqueued before it
\* although it was ready earlier.
ChannelHeadOfLine ==
  LET c == chan[1]
  IN /\ c.cfg.reorder_pct = 0
     /\ \E k \in 1..Len(c.wire), j \in 1..Len(c.wire) :
          k < j /\ c.wire[k].id < c.wire[j].id /\ c.wire[k].ready > c.wire[j].ready

\* ------------------------------------------------- the queue over time
\* A channel whose bb_channel_send is called for ever.  Every decision of
\* these configurations is certain (percentages of 0 and 100, no jitter),
\* so the generator's state has no part in what the channel does and is not
\* kept; the clock is read relative to the latest call (a ready_ts or
\* next_tx_ts in the past compares like one that equals now); only the
\* transmissions of the latest call are kept; and a send call is numbered
\* with the least number that no queued frame carries.  The socket stays
\* writable.  The configurations: every frame reordered under a rate limit
\* of one millisecond per byte; every frame reordered and delayed beyond
\* the bounded wait; every frame duplicated and delayed.
MaxQueue == 3
LaterMs == 200
StreamCfgs ==
  { ChanCfg(0, 0, 100, 0, 0, 8, <<7, 0, 0, 0>>),
    ChanCfg(0, 0, 100, LaterMs, 0, 0, <<7, 0, 0, 0>>),
    ChanCfg(0, 100, 0, LaterMs, 0, 0, <<7, 0, 0, 0>>) }

QueuedIds(c) == {c.q[k].id : k \in DOMAIN c.q}

FreshId(c) == CHOOSE i \in 1..(Len(c.q) + 1) :
                /\ i \notin QueuedIds(c)
                /\ \A j \in 1..(i - 1) : j \in QueuedIds(c)

Since(t, now) == IF t > now THEN t - now ELSE 0

\* The channel object with its clock set back to 0.
Rebase(c) ==
  [c EXCEPT !.now = 0,
            !.next_tx_ts = Since(@, c.now),
            !.q = [k \in DOMAIN @ |-> [@[k] EXCEPT !.ready_ts = Since(@, c.now)]],
            !.wire = [k \in DOMAIN @ |-> [@[k] EXCEPT !.at = 0, !.ready = 0, !.gate = 0]],
            !.rng = c.cfg.seed,
            !.calls = <<>>,
            !.last = [@ EXCEPT !.delay = 0]]

StreamInit ==
  /\ engine = "none"
  /\ wnd = DefaultWnd
  /\ mss = DefaultMss
  /\ init_seq = EchoInitSeq
  /\ lossy = FALSE
  /\ trace = FALSE
  /\ EngineState([e \in EP |-> {}])
  /\ tmr = NoTimer
  /\ \E cfg \in StreamCfgs : chan = <<bb_channel_create(ServerAddr, cfg, <<>>)>>

\* bb_channel_send called dt milliseconds after the latest call returned.
StreamSendAt(buf, dt) ==
  /\ LET c == chan[1]
         numbered == [c EXCEPT !.calls = [k \in 1..(FreshId(c) - 1) |-> buf], !.wire = <<>>]
         Send(n) == ChannelSend(n, buf, dt, [at |-> 0, kind |-> "ok"])
     IN chan' = <<Apply(Rebase, Apply(Send, numbered))>>
  /\ UNCHANGED <<engineVars, call, tmr>>

\* A call that follows the latest one at once, while the queue is short.
StreamSendNow ==
  /\ Len(chan[1].q) < MaxQueue
  /\ \E buf \in ChanBufs : StreamSendAt(buf, 0)

\* A call that follows after LaterMs.
StreamSendLater == \E buf \in ChanBufs : StreamSendAt(buf, LaterMs)

StreamNext == StreamSendNow \/ StreamSendLater

\* Time advances and bb_channel_send continues to be called.
StreamSpec == StreamInit /\ [][StreamNext]_vars /\ WF_vars(StreamSendLater)

\* C37: every frame that bb_channel_send enqueues, original or duplicate,
\* is eventually transmitted on the socket, for every setting of delay,
\* reorder_pct and rate limit, provided the socket stays writable, time
\* advances and bb_channel_send continues to be called.  A frame leaves
\* the queue only by being transmitted, so no frame waits for ever iff
\* every call number is free of queued frames again and again.
ChannelNoStranding ==
  \A i \in 1..(2 * MaxQueue) : []<>(i \notin QueuedIds(chan[1]))

\* ------------------------------------------------- SR below the wrap
\* An SR session created two sequences below the wrap of the sequence
\* space: endpoint 1 sends one message of three one-byte segments (the last
\* numbered 0) through a window of three and endpoint 2 calls recv, with
\* the record of the latest call kept.
WrapLen == MaxLen + 1

SrWrapInit ==
  /\ engine = "sr"
  /\ wnd = bb_proto_sr_create_wnd(3)
  /\ mss = bb_proto_sr_create_mss(1)
  /\ init_seq = SeqMod - 2
  /\ lossy = FALSE
  /\ trace = TRUE
  /\ EngineInit

SrWrapSendCall == msgs[1] = <<>> /\ SrSendCallOf(1, WrapLen)

SrWrapNext ==
  SrWrapSendCall \/ SrSendIter(1) \/ SrDrainIter(1) \/ SrSendReturn(1) \/ SrRecv(2)

SrWrapSpec == SrWrapInit /\ [][SrWrapNext]_vars

\* ------------------------------------------------- the three counters
\* The DATA frames of a call that carry sequences at or beyond nxt.
NewFrames(out, nxt) ==
  {k \in DOMAIN out : out[k].flags = BB_FLAG_DATA /\ seq_cmp(out[k].seq, nxt) >= 0}

\* C38: in both engines, in signed modular order, snd_una, snd_nxt and
\* rcv_nxt never decrease; snd_una changes only when an ack ahead of it and
\* not beyond snd_nxt is consumed (and becomes that ack); snd_nxt changes
\* only by +1 for each new segment handed to the channel; and rcv_nxt
\* changes only by +1 steps, each over a sequence whose segment is present
\* at the receiver (the one just received, or one buffered in its slot
\* with the payload of a DATA frame of that number sent to the receiver).
CountersForward ==
  [][\A e \in EP :
       /\ seq_cmp(snd_una'[e], snd_una[e]) >= 0
       /\ seq_cmp(snd_nxt'[e], snd_nxt[e]) >= 0
       /\ seq_cmp(rcv_nxt'[e], rcv_nxt[e]) >= 0
       /\ snd_una'[e] # snd_una[e] =>
            /\ call'.e = e /\ call'.h \notin {Corrupt, Timeout}
            /\ seq_cmp(call'.h.ack, snd_una[e]) > 0
            /\ seq_cmp(call'.h.ack, snd_nxt[e]) <= 0
            /\ snd_una'[e] = call'.h.ack
       /\ snd_nxt'[e] # snd_nxt[e] =>
            /\ call'.e = e /\ call'.op \in {"send", "send_pass"}
            /\ Cardinality(NewFrames(call'.out, snd_nxt[e])) = seq_cmp(snd_nxt'[e], snd_nxt[e])
            /\ \A k \in 1..seq_cmp(snd_nxt'[e], snd_nxt[e]) :
                 \E j \in NewFrames(call'.out, snd_nxt[e]) :
                   call'.out[j].seq = (snd_nxt[e] + k - 1) % SeqMod
       /\ rcv_nxt'[e] # rcv_nxt[e] =>
            /\ call'.e = e /\ call'.op = "recv" /\ call'.h \notin {Corrupt, Timeout}
            /\ call'.h.flags = BB_FLAG_DATA /\ call'.h.seq = rcv_nxt[e]
            /\ \A k \in 2..seq_cmp(rcv_nxt'[e], rcv_nxt[e]) :
                 LET q == (rcv_nxt[e] + k - 1) % SeqMod
                 IN /\ engine = "sr"
                    /\ wrap_idx(q, wnd) \in DOMAIN rx[e]
                    /\ \E f \in net[e] :
                         /\ f.flags = BB_FLAG_DATA /\ f.seq = q
                         /\ f.pl = rx[e][wrap_idx(q, wnd)]]_vars

\* ------------------------------------------------- emitted acks
\* The segment numbered q is at receiver e in the step: it is the DATA
\* frame the call received, or it waits in its slot.
SegmentPresent(e, q) ==
  \/ /\ call'.h \notin {Corrupt, Timeout}
     /\ call'.h.flags = BB_FLAG_DATA /\ call'.h.seq = q
  \/ /\ engine = "sr" /\ wrap_idx(q, wnd) \in DOMAIN rx[e]
     /\ \E f \in net[e] : /\ f.flags = BB_FLAG_DATA /\ f.seq = q
                           /\ f.pl = rx[e][wrap_idx(q, wnd)]

\* C39: every pure ACK an engine emits carries its rcv_nxt as the call
\* leaves it, and the ack field of every DATA frame it sends or
\* retransmits carries its rcv_nxt at that point of the call; every
\* sequence below an emitted ack value has been accepted in order (each
\* sequence an ack newly covers is that of a segment present at the
\* receiver); and the ack values of one endpoint never decrease in
\* emission order.
AcksTruthful ==
  [][\A e \in EP :
       (call'.e = e /\ call'.op \in {"send", "recv", "send_pass", "drain_pass"}) =>
         LET out == call'.out
         IN /\ \A k \in DOMAIN out :
                 /\ out[k].ack = IF out[k].flags = BB_FLAG_ACK THEN rcv_nxt'[e] ELSE rcv_nxt[e]
                 /\ seq_cmp(out[k].ack, rcv_nxt[e]) >= 0
                 /\ \A d \in 1..seq_cmp(out[k].ack, rcv_nxt[e]) :
                      SegmentPresent(e, (rcv_nxt[e] + d - 1) % SeqMod)
            /\ \A k \in DOMAIN out, j \in DOMAIN out :
                 k < j => seq_cmp(out[j].ack, out[k].ack) >= 0]_vars

====
